---- MODULE Spec2Model ----
(***************************************************************************)
(* Message._parse of pyrogram (types/messages_and_media/message.py): the   *)
(* decoder that turns one raw message record into a Message object, with   *)
(* its await points, the shared message cache and the objects it creates.  *)
(*                                                                         *)
(* Python values are modelled as follows.  None is NULL (the empty tuple)  *)
(* and every other value v of an optional slot is Some(v), so that a slot  *)
(* can always be compared with NULL.  Objects live in `heap`; a reference  *)
(* to an object is its index in the heap, so that two names of one object  *)
(* see each other's assignments, as in Python.                             *)
(***************************************************************************)
EXTENDS Integers, Sequences, FiniteSets, TLC

VARIABLES
    heap,           \* the Message objects created so far, by reference
    message_cache,  \* client.message_cache: (chat id, message id) -> reference or NULL
    stack,          \* per caller: the frames of the Message._parse calls in progress
    users,          \* per caller: the users dict handed to Message._parse (a set of ids)
    chats,          \* per caller: the chats dict handed to Message._parse (a set of ids)
    topics,         \* per caller: the topics dict handed to Message._parse, or None
    outcome,        \* per caller: how the outermost call ended
    log,            \* per caller: the lookups and recursive decodes issued, per frame
    budget,         \* number of Message._parse calls the callers may still start
    posts,          \* the search_posts generator in progress
    bound           \* the bound method of a Message in progress

vars == <<heap, message_cache, stack, users, chats, topics, outcome, log, budget, posts, bound>>

----------------------------------------------------------------------------
(* Values *)

NULL == <<>>
Some(v) == <<v>>

\* Python truthiness of an optional int / an optional str
TruthyInt(v) == v # NULL /\ v[1] # 0
TruthyStr(v) == v # NULL /\ v[1] # ""

\* a or b, for optional ints
OrInt(a, b) == IF TruthyInt(a) THEN a ELSE b

Range(s) == {s[i] : i \in DOMAIN s}

\* Str(text).init(entities) or None: a Str is a str, so the empty one is falsy
StrOrNone(text, entities) ==
    IF text = "" THEN NULL ELSE Some([text |-> text, entities |-> Some(entities)])

\* a plain str, which carries no entities
PlainStr(text) == Some([text |-> text, entities |-> NULL])

\* entities or None: an empty list is falsy
ListOrNone(list) == IF list = <<>> THEN NULL ELSE Some(list)

----------------------------------------------------------------------------
(* Bounds of the model *)

MaxReplies == 2     \* replies ranges over 0..MaxReplies
MaxMsgId == 3       \* message ids range over 1..MaxMsgId
MaxCalls == 2       \* calls in a row in the sequential specification

\* Peers of the model: two users and one channel.
UserIds == {1, 2}
ChannelIds == {5}

\* utils.MAX_CHANNEL_ID is -1000000000000; scaled to fit TLC's integers.
ChannelOffset == 1000

Peer(type, id) == Some([type |-> type, id |-> id])

\* utils.get_raw_peer_id: the bare id of a peer, None for no peer
get_raw_peer_id(peer) == IF peer = NULL THEN NULL ELSE Some(peer[1].id)

\* utils.get_channel_id
get_channel_id(id) == -(ChannelOffset + id)

\* utils.get_peer_id: users positive, chats negative, channels below the offset
get_peer_id(peer) ==
    CASE peer[1].type = "PeerUser" -> peer[1].id
      [] peer[1].type = "PeerChat" -> -(peer[1].id)
      [] OTHER -> get_channel_id(peer[1].id)

----------------------------------------------------------------------------
(* The Message object *)

\* The service payload attributes: one per MessageServiceType.
ServicePayloadFields ==
    { "new_chat_members", "left_chat_member", "new_chat_title", "new_chat_photo",
      "delete_chat_photo", "group_chat_created", "channel_chat_created",
      "migrate_to_chat_id", "migrate_from_chat_id", "pinned_message",
      "game_high_score",
      "forum_topic_created", "forum_topic_closed", "forum_topic_reopened",
      "forum_topic_edited", "general_topic_hidden", "general_topic_unhidden",
      "video_chat_scheduled", "video_chat_started", "video_chat_ended",
      "video_chat_members_invited", "phone_call_started", "phone_call_ended",
      "web_app_data", "gift_code", "gift", "requested_chats",
      "successful_payment", "refunded_payment", "giveaway_created",
      "giveaway_completed", "chat_ttl_period", "boosts_applied",
      "write_access_allowed", "connected_website", "contact_registered",
      "screenshot_taken" }

\* The media payload attributes: one per MessageMediaType.
MediaPayloadFields ==
    { "photo", "location", "contact", "venue", "game", "giveaway",
      "giveaway_winners", "invoice", "story", "audio", "voice", "animation",
      "video", "video_note", "sticker", "document", "web_page", "poll", "dice",
      "paid_media" }

\* Message.__init__: the attributes of a Message (those Message._parse can set).
MessageFields ==
    { "id", "empty", "raw", "business_connection_id", "date", "chat",
      "from_user", "sender_chat", "service", "media", "text", "entities",
      "caption", "caption_entities", "chat_join_type", "forward_from", "forward_sender_name",
      "forward_from_chat", "forward_from_message_id", "forward_signature",
      "forward_date", "reply_markup", "quote", "quote_text", "quote_entities",
      "reply_to_message_id", "reply_to_top_message_id",
      "reply_to_story_id", "reply_to_story_user_id", "reply_to_message",
      "reply_to_story", "topic_message", "message_thread_id", "topic" }
    \cup ServicePayloadFields \cup MediaPayloadFields

\* Message(**kw): every attribute not passed is None.
Message(kw) == [f \in MessageFields |-> IF f \in DOMAIN kw THEN kw[f] ELSE NULL]

----------------------------------------------------------------------------
(* Collaborators outside message.py, as the decoder uses them *)

\* types.User._parse: a user for a raw user record, None for None
User_parse(u) == IF u = NULL THEN NULL ELSE Some([user_id |-> u[1]])

\* users.get(id, None) on a dict modelled by its key set
DictGet(table, id) == IF id # NULL /\ id[1] \in table THEN id ELSE NULL

\* table[id] raises KeyError when the key is missing
KeyMissing(table, id) == id = NULL \/ id[1] \notin table

\* types.Chat._parse: the chat of a record (is_chat) or its sender (not is_chat)
Chat_parse(message, forum, is_chat) ==
    LET from_id == get_raw_peer_id(message.from_id)
        peer_id == get_raw_peer_id(message.peer_id)
        raw_id == IF is_chat THEN OrInt(peer_id, from_id) ELSE OrInt(from_id, peer_id)
        type == message.peer_id[1].type
    IN  Some([ id |-> get_peer_id(Peer(type, raw_id[1])),
               is_forum |-> (type = "PeerChannel" /\ forum) ])

\* types.MessageEntity._parse: None for an entity kind it does not know
KnownEntities == { "MessageEntityBold", "MessageEntityBlockquote" }
MessageEntity_parse(entity) == IF entity \in KnownEntities THEN Some(entity) ELSE NULL

\* types.List(filter(lambda x: x is not None, [MessageEntity._parse(e) ...]))
RECURSIVE ParseEntities(_)
ParseEntities(raw_entities) ==
    IF raw_entities = <<>> THEN <<>>
    ELSE LET e == MessageEntity_parse(Head(raw_entities))
             rest == ParseEntities(Tail(raw_entities))
         IN  IF e = NULL THEN rest ELSE <<e[1]>> \o rest

----------------------------------------------------------------------------
(* Message._parse, service branch: the dispatch on the action (lines 791-927) *)

\* The keys the dispatch subscripts `users` with (users[i] raises KeyError).
ServiceSubscripts(message) ==
    LET action == message.action[1]
    IN  CASE action.tag = "MessageActionChatAddUser" -> {Some(i) : i \in Range(action.users)}
          [] action.tag \in {"MessageActionChatJoinedByLink", "MessageActionChatJoinedByRequest"} ->
                {get_raw_peer_id(message.from_id)}
          [] action.tag = "MessageActionChatDeleteUser" -> {Some(action.user_id)}
          [] OTHER -> {}

ServiceKeyError(message, table) == \E k \in ServiceSubscripts(message) : KeyMissing(table, k)

\* The chain with closed tested before hidden (not what the code does).
TopicEditClosedFirst(action) ==
    IF TruthyStr(action.title) THEN
        [forum_topic_edited |-> Some("ForumTopicEdited"), service |-> Some("FORUM_TOPIC_EDITED")]
    ELSE IF action.closed = Some(TRUE) THEN
        [forum_topic_closed |-> Some("ForumTopicClosed"), service |-> Some("FORUM_TOPIC_CLOSED")]
    ELSE IF action.hidden = Some(TRUE) THEN
        [general_topic_hidden |-> Some("GeneralTopicHidden"), service |-> Some("GENERAL_TOPIC_HIDDEN")]
    ELSE
        [forum_topic_reopened |-> Some("ForumTopicReopened"), service |-> Some("FORUM_TOPIC_REOPENED")]

\* MessageActionTopicEdit (lines 835-851)
TopicEditDispatch(action) ==
    IF TruthyStr(action.title) THEN
        [forum_topic_edited |-> Some("ForumTopicEdited"), service |-> Some("FORUM_TOPIC_EDITED")]
    ELSE IF action.hidden = Some(TRUE) THEN
        [general_topic_hidden |-> Some("GeneralTopicHidden"), service |-> Some("GENERAL_TOPIC_HIDDEN")]
    ELSE IF action.closed = Some(TRUE) THEN
        [forum_topic_closed |-> Some("ForumTopicClosed"), service |-> Some("FORUM_TOPIC_CLOSED")]
    ELSE IF action.hidden = Some(TRUE) THEN
        [general_topic_unhidden |-> Some("GeneralTopicUnhidden"), service |-> Some("GENERAL_TOPIC_UNHIDDEN")]
    ELSE
        [forum_topic_reopened |-> Some("ForumTopicReopened"), service |-> Some("FORUM_TOPIC_REOPENED")]

\* The locals the if/elif chain sets, service_type included (as `service`).
ServiceDispatch(message) ==
    LET action == message.action[1]
        tag == action.tag
        joined == <<User_parse(get_raw_peer_id(message.from_id))[1]>>
    IN  CASE tag = "MessageActionChatAddUser" ->
                [ new_chat_members |-> Some([i \in DOMAIN action.users |-> User_parse(Some(action.users[i]))[1]]),
                  service |-> Some("NEW_CHAT_MEMBERS"), chat_join_type |-> Some("BY_ADD") ]
          [] tag = "MessageActionChatJoinedByLink" ->
                [ new_chat_members |-> Some(joined),
                  service |-> Some("NEW_CHAT_MEMBERS"), chat_join_type |-> Some("BY_LINK") ]
          [] tag = "MessageActionChatJoinedByRequest" ->
                [ new_chat_members |-> Some(joined),
                  service |-> Some("NEW_CHAT_MEMBERS"), chat_join_type |-> Some("BY_REQUEST") ]
          [] tag = "MessageActionChatDeleteUser" ->
                [ left_chat_member |-> User_parse(Some(action.user_id)), service |-> Some("LEFT_CHAT_MEMBERS") ]
          [] tag = "MessageActionChatEditTitle" ->
                [ new_chat_title |-> action.title, service |-> Some("NEW_CHAT_TITLE") ]
          [] tag = "MessageActionChatDeletePhoto" ->
                [ delete_chat_photo |-> Some(TRUE), service |-> Some("DELETE_CHAT_PHOTO") ]
          [] tag = "MessageActionChatMigrateTo" ->
                [ migrate_to_chat_id |-> Some(action.channel_id), service |-> Some("MIGRATE_TO_CHAT_ID") ]
          [] tag = "MessageActionChannelMigrateFrom" ->
                [ migrate_from_chat_id |-> Some(action.chat_id), service |-> Some("MIGRATE_FROM_CHAT_ID") ]
          [] tag = "MessageActionChatCreate" ->
                [ group_chat_created |-> Some(TRUE), service |-> Some("GROUP_CHAT_CREATED") ]
          [] tag = "MessageActionChannelCreate" ->
                [ channel_chat_created |-> Some(TRUE), service |-> Some("CHANNEL_CHAT_CREATED") ]
          [] tag = "MessageActionChatEditPhoto" ->
                [ new_chat_photo |-> Some("Photo"), service |-> Some("NEW_CHAT_PHOTO") ]
          [] tag = "MessageActionCustomAction" ->
                [ text |-> PlainStr(action.message), service |-> Some("CUSTOM_ACTION") ]
          [] tag = "MessageActionTopicCreate" ->
                [ forum_topic_created |-> Some("ForumTopicCreated"), service |-> Some("FORUM_TOPIC_CREATED") ]
          [] tag = "MessageActionTopicEdit" -> TopicEditDispatch(action)
          [] tag = "MessageActionGroupCallScheduled" ->
                [ video_chat_scheduled |-> Some("VideoChatScheduled"), service |-> Some("VIDEO_CHAT_SCHEDULED") ]
          [] tag = "MessageActionGroupCall" ->
                IF TruthyInt(action.duration)
                THEN [ video_chat_ended |-> Some("VideoChatEnded"), service |-> Some("VIDEO_CHAT_ENDED") ]
                ELSE [ video_chat_started |-> Some("VideoChatStarted"), service |-> Some("VIDEO_CHAT_STARTED") ]
          [] tag = "MessageActionInviteToGroupCall" ->
                [ video_chat_members_invited |-> Some("VideoChatMembersInvited"),
                  service |-> Some("VIDEO_CHAT_MEMBERS_INVITED") ]
          [] tag = "MessageActionPhoneCall" ->
                IF action.reason # NULL
                THEN [ phone_call_ended |-> Some("PhoneCallEnded"), service |-> Some("PHONE_CALL_ENDED") ]
                ELSE [ phone_call_started |-> Some("PhoneCallStarted"), service |-> Some("PHONE_CALL_STARTED") ]
          [] tag = "MessageActionWebViewDataSentMe" ->
                [ web_app_data |-> Some("WebAppData"), service |-> Some("WEB_APP_DATA") ]
          [] tag = "MessageActionGiveawayLaunch" ->
                [ giveaway_created |-> Some("GiveawayCreated"), service |-> Some("GIVEAWAY_CREATED") ]
          [] tag = "MessageActionGiveawayResults" ->
                [ giveaway_completed |-> Some("GiveawayCompleted"), service |-> Some("GIVEAWAY_COMPLETED") ]
          [] tag = "MessageActionGiftCode" ->
                [ gift_code |-> Some("GiftCode"), service |-> Some("GIFT_CODE") ]
          [] tag \in {"MessageActionRequestedPeer", "MessageActionRequestedPeerSentMe"} ->
                [ requested_chats |-> Some("RequestedChats"), service |-> Some("REQUESTED_CHAT") ]
          [] tag \in {"MessageActionPaymentSent", "MessageActionPaymentSentMe"} ->
                [ successful_payment |-> Some("SuccessfulPayment"), service |-> Some("SUCCESSFUL_PAYMENT") ]
          [] tag = "MessageActionPaymentRefunded" ->
                [ refunded_payment |-> Some("RefundedPayment"), service |-> Some("REFUNDED_PAYMENT") ]
          [] tag = "MessageActionSetMessagesTTL" ->
                [ chat_ttl_period |-> Some(action.period), service |-> Some("CHAT_TTL_CHANGED") ]
          [] tag = "MessageActionBoostApply" ->
                [ boosts_applied |-> Some(action.boosts), service |-> Some("BOOST_APPLY") ]
          [] tag \in {"MessageActionStarGift", "MessageActionStarGiftUnique"} ->
                [ gift |-> Some("Gift"), service |-> Some("GIFT") ]
          [] tag = "MessageActionBotAllowed" ->
                IF TruthyStr(action.domain)
                THEN [ connected_website |-> action.domain, service |-> Some("CONNECTED_WEBSITE") ]
                ELSE [ connected_website |-> action.domain,
                       write_access_allowed |-> Some("WriteAccessAllowed"),
                       service |-> Some("WRITE_ACCESS_ALLOWED") ]
          [] tag = "MessageActionScreenshotTaken" ->
                [ service |-> Some("SCREENSHOT_TAKEN"), screenshot_taken |-> Some("ScreenshotTaken") ]
          [] tag = "MessageActionContactSignUp" ->
                [ service |-> Some("CONTACT_REGISTERED"), contact_registered |-> Some("ContactRegistered") ]
          [] OTHER -> [ service |-> NULL ]

\* The actions whose sub-decoder is awaited (GiveawayCompleted._parse, Gift._parse_action).
ServiceAwaitsSubDecoder(message) ==
    message.action[1].tag \in
        {"MessageActionGiveawayResults", "MessageActionStarGift", "MessageActionStarGiftUnique"}

----------------------------------------------------------------------------
(* Message._parse, content branch: forward header, media, markup, body *)

\* Lines 1035-1049: the forward header.  users[...] / chats[...] raise KeyError.
ForwardKeyError(message, user_table, chat_table) ==
    /\ message.fwd_from # NULL
    /\ message.fwd_from[1].from_id # NULL
    /\ LET from_id == message.fwd_from[1].from_id
       IN  IF get_peer_id(from_id) > 0
           THEN KeyMissing(user_table, get_raw_peer_id(from_id))
           ELSE KeyMissing(chat_table, get_raw_peer_id(from_id))

\* A variant that takes the free-text name whenever the header has one.
ForwardWithName(message) ==
    IF message.fwd_from = NULL THEN [forward_date |-> NULL]
    ELSE LET forward_header == message.fwd_from[1]
             name == IF TruthyStr(forward_header.from_name)
                     THEN [forward_sender_name |-> forward_header.from_name] ELSE <<>>
         IN  IF forward_header.from_id # NULL THEN
                 IF get_peer_id(forward_header.from_id) > 0
                 THEN name @@ [ forward_date |-> Some(forward_header.date),
                                forward_from |-> User_parse(get_raw_peer_id(forward_header.from_id)) ]
                 ELSE name @@ [ forward_date |-> Some(forward_header.date),
                                forward_from_chat |-> Some([id |-> get_peer_id(forward_header.from_id), is_forum |-> FALSE]),
                                forward_from_message_id |-> forward_header.channel_post,
                                forward_signature |-> forward_header.post_author ]
             ELSE name @@ [ forward_date |-> Some(forward_header.date) ]

ForwardDispatch(message) ==
    IF message.fwd_from = NULL THEN [forward_date |-> NULL]
    ELSE LET forward_header == message.fwd_from[1]
         IN  IF forward_header.from_id # NULL THEN
                 IF get_peer_id(forward_header.from_id) > 0
                 THEN [ forward_date |-> Some(forward_header.date),
                        forward_from |-> User_parse(get_raw_peer_id(forward_header.from_id)) ]
                 ELSE [ forward_date |-> Some(forward_header.date),
                        forward_from_chat |-> Some([id |-> get_peer_id(forward_header.from_id), is_forum |-> FALSE]),
                        forward_from_message_id |-> forward_header.channel_post,
                        forward_signature |-> forward_header.post_author ]
             ELSE IF TruthyStr(forward_header.from_name)
             THEN [ forward_date |-> Some(forward_header.date),
                    forward_sender_name |-> forward_header.from_name ]
             ELSE [ forward_date |-> Some(forward_header.date) ]

\* Location._parse (location.py): a Location for a GeoPoint, None otherwise
Location_parse(geo_point) == IF geo_point = "GeoPoint" THEN Some("Location") ELSE NULL

\* The dispatch with Sticker tested before Animated (not what the code does).
DocumentStickerFirst(media) ==
    IF "DocumentAttributeSticker" \in media.attributes THEN
        [sticker |-> Some("Sticker"), media |-> Some("STICKER")]
    ELSE IF "DocumentAttributeAnimated" \in media.attributes THEN
        [animation |-> Some("Animation"), media |-> Some("ANIMATION")]
    ELSE IF "DocumentAttributeVideo" \in media.attributes THEN
        IF media.round_message
        THEN [video_note |-> Some("VideoNote"), media |-> Some("VIDEO_NOTE")]
        ELSE [video |-> Some("Video"), media |-> Some("VIDEO")]
    ELSE IF "DocumentAttributeAudio" \in media.attributes THEN
        IF media.voice
        THEN [voice |-> Some("Voice"), media |-> Some("VOICE")]
        ELSE [audio |-> Some("Audio"), media |-> Some("AUDIO")]
    ELSE
        [document |-> Some("Document"), media |-> Some("DOCUMENT")]

\* Lines 1106-1164: the dispatch on the attributes of a genuine document
DocumentDispatch(media) ==
    IF "DocumentAttributeAnimated" \in media.attributes THEN
        [animation |-> Some("Animation"), media |-> Some("ANIMATION")]
    ELSE IF "DocumentAttributeSticker" \in media.attributes THEN
        [sticker |-> Some("Sticker"), media |-> Some("STICKER")]
    ELSE IF "DocumentAttributeVideo" \in media.attributes THEN
        IF media.round_message
        THEN [video_note |-> Some("VideoNote"), media |-> Some("VIDEO_NOTE")]
        ELSE [video |-> Some("Video"), media |-> Some("VIDEO")]
    ELSE IF "DocumentAttributeAudio" \in media.attributes THEN
        IF media.voice
        THEN [voice |-> Some("Voice"), media |-> Some("VOICE")]
        ELSE [audio |-> Some("Audio"), media |-> Some("AUDIO")]
    ELSE
        [document |-> Some("Document"), media |-> Some("DOCUMENT")]

\* Lines 1073-1188: the payload locals and media_type (as `media`) the chain sets.
MediaDispatch(message) ==
    IF message.media = NULL THEN [media |-> NULL]
    ELSE LET media == message.media[1]
             type == media.type
         IN  CASE type = "MessageMediaPhoto" -> [photo |-> Some("Photo"), media |-> Some("PHOTO")]
               [] type = "MessageMediaGeo" -> [location |-> Location_parse(media.geo), media |-> Some("LOCATION")]
               [] type = "MessageMediaContact" -> [contact |-> Some("Contact"), media |-> Some("CONTACT")]
               [] type = "MessageMediaVenue" -> [venue |-> Some("Venue"), media |-> Some("VENUE")]
               [] type = "MessageMediaGame" -> [game |-> Some("Game"), media |-> Some("GAME")]
               [] type = "MessageMediaGiveaway" -> [giveaway |-> Some("Giveaway"), media |-> Some("GIVEAWAY")]
               [] type = "MessageMediaGiveawayResults" ->
                     [giveaway_winners |-> Some("GiveawayWinners"), media |-> Some("GIVEAWAY_WINNERS")]
               [] type = "MessageMediaInvoice" -> [invoice |-> Some("Invoice"), media |-> Some("INVOICE")]
               [] type = "MessageMediaStory" -> [story |-> Some("Story"), media |-> Some("STORY")]
               [] type = "MessageMediaDocument" ->
                     IF media.document = "Document" THEN DocumentDispatch(media) ELSE [media |-> NULL]
               [] type = "MessageMediaWebPage" ->
                     IF media.webpage = "WebPage"
                     THEN [web_page |-> Some("WebPage"), media |-> Some("WEB_PAGE")]
                     ELSE [media |-> NULL]
               [] type = "MessageMediaPoll" -> [poll |-> Some("Poll"), media |-> Some("POLL")]
               [] type = "MessageMediaDice" -> [dice |-> Some("Dice"), media |-> Some("DICE")]
               [] type = "MessageMediaPaidMedia" -> [paid_media |-> Some("PaidMediaInfo"), media |-> Some("PAID_MEDIA")]
               [] OTHER -> [media |-> NULL]

\* Whether the local `media` is None after the chain: no media in the record,
\* a web page that is no WebPage (line 1177) or an unknown kind (line 1188).
RecognizedMedia ==
    { "MessageMediaPhoto", "MessageMediaGeo", "MessageMediaContact", "MessageMediaVenue",
      "MessageMediaGame", "MessageMediaGiveaway", "MessageMediaGiveawayResults",
      "MessageMediaInvoice", "MessageMediaStory", "MessageMediaDocument",
      "MessageMediaWebPage", "MessageMediaPoll", "MessageMediaDice", "MessageMediaPaidMedia" }

MediaIsNone(message) ==
    \/ message.media = NULL
    \/ message.media[1].type \notin RecognizedMedia
    \/ message.media[1].type = "MessageMediaWebPage" /\ message.media[1].webpage # "WebPage"

\* The media kinds whose sub-decoder is awaited (lines 1098, 1104, 1124).
ContentAwaitsSubDecoder(message) ==
    /\ message.media # NULL
    /\ LET media == message.media[1]
       IN  \/ media.type \in {"MessageMediaGiveawayResults", "MessageMediaStory"}
           \/ /\ media.type = "MessageMediaDocument"
              /\ media.document = "Document"
              /\ "DocumentAttributeAnimated" \notin media.attributes
              /\ "DocumentAttributeSticker" \in media.attributes

\* A variant that hands any reply markup on as it came.
ReplyMarkupKept(reply_markup) == reply_markup

\* Lines 1190-1202: the reply markup
ReplyMarkupDispatch(reply_markup) ==
    IF reply_markup = NULL THEN NULL
    ELSE CASE reply_markup[1] = "ReplyKeyboardForceReply" -> Some("ForceReply")
           [] reply_markup[1] = "ReplyKeyboardMarkup" -> Some("ReplyKeyboardMarkup")
           [] reply_markup[1] = "ReplyInlineMarkup" -> Some("InlineKeyboardMarkup")
           [] reply_markup[1] = "ReplyKeyboardHide" -> Some("ReplyKeyboardRemove")
           [] OTHER -> NULL

\* A variant that treats a web page like any other media.
BodyIsTextWithoutMedia(media_is_none, web_page) == media_is_none

\* Lines 1221-1240: the body goes to text/entities or to caption/caption_entities
BodyIsText(media_is_none, web_page) == media_is_none \/ web_page # NULL

BodyDispatch(message, media_is_none, web_page) ==
    LET entities == ParseEntities(message.entities)
    IN  IF BodyIsText(media_is_none, web_page)
        THEN [ text |-> StrOrNone(message.message, entities), entities |-> ListOrNone(entities) ]
        ELSE [ caption |-> StrOrNone(message.message, entities),
               caption_entities |-> ListOrNone(entities) ]

----------------------------------------------------------------------------
(* Message._parse: the Message each branch constructs *)

\* m with the attributes of upd assigned
Assign(m, upd) == [f \in MessageFields |-> IF f \in DOMAIN upd THEN upd[f] ELSE m[f]]

\* Lines 729-731
SenderId(message) == OrInt(get_raw_peer_id(message.from_id), get_raw_peer_id(message.peer_id))

\* A variant that derives sender_chat whether or not a user was found.
SenderChatAlways(message, user_table, forum) ==
    [ from_user |-> User_parse(DictGet(user_table, SenderId(message))),
      sender_chat |-> Chat_parse(message, forum, FALSE) ]

\* Lines 929-930 and 1204-1205: from_user, else sender_chat
SenderDispatch(message, user_table, forum) ==
    LET from_user == User_parse(DictGet(user_table, SenderId(message)))
    IN  [ from_user |-> from_user,
          sender_chat |-> IF from_user = NULL THEN Chat_parse(message, forum, FALSE) ELSE NULL ]

\* A variant that builds the bare minimum.
EmptyMessageBare(a) == [f \in MessageFields |->
    IF f = "id" THEN Some(a.message.id) ELSE IF f = "empty" THEN Some(TRUE) ELSE NULL]

\* Lines 720-727: the Message of a MessageEmpty
EmptyMessage(a) ==
    Message([ id |-> Some(a.message.id), empty |-> Some(TRUE),
              business_connection_id |-> a.business_connection_id,
              raw |-> Some(a.message) ])

\* Lines 946-947: the migration ids are converted when the Message is built
MigrateIds(d) ==
    [ k \in DOMAIN d |->
        CASE k = "migrate_to_chat_id" -> IF TruthyInt(d[k]) THEN Some(get_channel_id(d[k][1])) ELSE NULL
          [] k = "migrate_from_chat_id" -> IF TruthyInt(d[k]) THEN Some(-(d[k][1])) ELSE NULL
          [] OTHER -> d[k] ]

\* Lines 932-981: the Message of a MessageService, before the lookups
ServiceMessage(a, user_table) ==
    Message( MigrateIds(ServiceDispatch(a.message))
             @@ SenderDispatch(a.message, user_table, a.forum)
             @@ [ id |-> Some(a.message.id),
                  message_thread_id |-> NULL,
                  date |-> Some(a.message.date),
                  chat |-> Chat_parse(a.message, a.forum, TRUE),
                  business_connection_id |-> a.business_connection_id,
                  raw |-> Some(a.message) ] )

\* A variant that looks at the top id alone.
ThreadIdTopOnly(reply_to) == OrInt(reply_to.reply_to_top_id, Some(1))

\* Lines 1012-1017 and 1314-1319: the thread id of a forum-topic reply header
ThreadId(reply_to) ==
    IF TruthyInt(reply_to.reply_to_top_id) THEN reply_to.reply_to_top_id
    ELSE OrInt(reply_to.reply_to_msg_id, Some(1))

\* types.ForumTopic._parse(client, topics.get(thread_id), ...)
ForumTopic_parse(topic_table, thread_id) ==
    IF thread_id[1] \in topic_table THEN Some([topic_id |-> thread_id[1]]) ELSE NULL

\* Lines 1293-1294: a blockquote among the raw entities
QuoteDispatch(message) ==
    IF \E i \in DOMAIN message.entities : message.entities[i] = "MessageEntityBlockquote"
    THEN [quote |-> Some(TRUE)] ELSE <<>>

\* Lines 1309-1340: what the reply header assigns
ReplyHeaderDispatch(a, body_is_text) ==
    IF a.message.reply_to = NULL THEN <<>>
    ELSE LET reply_to == a.message.reply_to[1]
             ids == [ reply_to_message_id |-> reply_to.reply_to_msg_id,
                      reply_to_top_message_id |-> reply_to.reply_to_top_id ]
             quote_entities == ParseEntities(reply_to.quote_entities)
         IN  IF reply_to.type = "MessageReplyHeader" THEN
                 IF reply_to.forum_topic THEN
                     [ topic_message |-> Some(TRUE), message_thread_id |-> ThreadId(reply_to) ]
                     @@ (IF a.topics # NULL /\ a.topics[1] # {}
                         THEN [topic |-> ForumTopic_parse(a.topics[1], ThreadId(reply_to))]
                         ELSE <<>>)
                     @@ ids
                 ELSE IF reply_to.quote THEN
                     [ quote |-> Some(TRUE),
                       quote_text |-> IF body_is_text
                                      THEN StrOrNone(reply_to.quote_text, quote_entities) ELSE NULL,
                       quote_entities |-> IF body_is_text THEN ListOrNone(quote_entities) ELSE NULL ]
                     @@ ids
                 ELSE ids
             ELSE [ reply_to_story_id |-> Some(reply_to.story_id),
                    reply_to_story_user_id |-> Some(get_peer_id(reply_to.peer)) ]

\* Lines 1209-1340: the Message of a content record, before the lookups
ContentMessage(a, user_table) ==
    LET message == a.message
        media == MediaDispatch(message)
        web_page == IF "web_page" \in DOMAIN media THEN media.web_page ELSE NULL
        body_is_text == BodyIsText(MediaIsNone(message), web_page)
        built == Message( media
                          @@ BodyDispatch(message, MediaIsNone(message), web_page)
                          @@ ForwardDispatch(message)
                          @@ SenderDispatch(message, user_table, a.forum)
                          @@ [ id |-> Some(message.id),
                               message_thread_id |-> NULL,
                               date |-> Some(message.date),
                               chat |-> Chat_parse(message, a.forum, TRUE),
                               business_connection_id |-> a.business_connection_id,
                               reply_markup |-> ReplyMarkupDispatch(message.reply_markup),
                               raw |-> Some(message) ] )
    IN  Assign(Assign(built, QuoteDispatch(message)), ReplyHeaderDispatch(a, body_is_text))

\* A Message returned by client.get_messages: built outside this file, so only
\* its identity is modelled (raw is left None to tell it apart).
FetchedMessage(chat, id) ==
    Message([ id |-> Some(id), chat |-> chat, date |-> Some(0),
              text |-> StrOrNone("fetched", <<>>) ])

----------------------------------------------------------------------------
(* The calls in progress *)

Callers == {1, 2}

\* The positions at which Message._parse is suspended in an await.
AwaitPcs == { "resolve_from_id", "resolve_peer_id", "get_users", "sub_decoder", "pinned", "game_reply", "nested",
              "reply_fetch", "story", "topic" }

Top(p) == stack[p][Len(stack[p])]
Depth(p) == Len(stack[p])

\* asyncio runs one coroutine at a time: p may step only while every other
\* call in progress is suspended in an await.
Scheduled(p) ==
    \A q \in Callers \ {p} : IF stack[q] = <<>> THEN TRUE ELSE Top(q).pc \in AwaitPcs

At(p, pc) == stack[p] # <<>> /\ Top(p).pc = pc /\ Scheduled(p)

Frame(a) == [pc |-> "start", a |-> a, parsed |-> 0]

\* The arguments of the frame at the top, its chats and topics being the
\* caller's dicts as they are now (a nested call is given no topics).
Current(p) ==
    [ Top(p).a EXCEPT !.chats = chats[p],
                      !.topics = IF Top(p).a.topics = NULL THEN NULL ELSE topics[p] ]

SetTop(p, pc, parsed) ==
    [stack EXCEPT ![p][Len(stack[p])] = [@ EXCEPT !.pc = pc, !.parsed = parsed]]

Goto(p, pc) == stack' = SetTop(p, pc, Top(p).parsed)

\* One entry per lookup or recursive decode a frame issues; arg is the replies
\* argument of a get_messages / Message._parse call, the topic id of a topic lookup.
\* What a collaborator answered: how it ended, the id of the message it
\* returned, the users it found.
Answer(kind, id, found) == [kind |-> kind, id |-> id, found |-> found]
NoAnswer == Answer("", 0, {})

Logged(p, kind, arg) ==
    log' = [log EXCEPT ![p] = Append(@, [depth |-> Depth(p), kind |-> kind, arg |-> arg, answer |-> NoAnswer])]

\* The answer a lookup or sub-decoder came back with.
Answered(p, kind, answer) ==
    log' = [log EXCEPT ![p] = Append(@, [depth |-> Depth(p), kind |-> kind, arg |-> 0, answer |-> answer])]

\* client.message_cache[key]: None for a key it does not hold
CacheKeys == DOMAIN message_cache
CacheGet(chat_id, id) ==
    IF id # NULL /\ <<chat_id, id[1]>> \in CacheKeys THEN message_cache[<<chat_id, id[1]>>] ELSE NULL

\* The key a record is cached under: (parsed_message.chat.id, parsed_message.id)
OwnKey(a) == <<Chat_parse(a.message, a.forum, TRUE)[1].id, a.message.id>>

\* The calls that have ended since they were last made
Finished == Cardinality({ q \in Callers : outcome[q].status \in {"returned", "raised"} })

\* A cache that keeps the entry it already holds (not what the code does).
CacheSetDefault(key, ref) ==
    IF message_cache[key] = NULL THEN [message_cache EXCEPT ![key] = Some(ref)] ELSE message_cache

\* Lines 1010 and 1390: client.message_cache[key] = parsed_message
CacheSet(key, ref) == [message_cache EXCEPT ![key] = Some(ref)]

\* An exception leaves Message._parse and every frame above it.
Raise(p, err) ==
    /\ stack' = [stack EXCEPT ![p] = <<>>]
    /\ outcome' = [outcome EXCEPT ![p] = [@ EXCEPT !.status = "raised", !.err = err,
                                                   !.order = Finished + 1]]

\* return parsed_message, the heap being h: to the caller of the outermost
\* call, or into reply_to_message of the frame that awaits it (line 1344).
Return(p, ref, h) ==
    IF Depth(p) = 1
    THEN /\ heap' = h
         /\ stack' = [stack EXCEPT ![p] = <<>>]
         /\ outcome' = [outcome EXCEPT ![p] = [@ EXCEPT !.status = "returned", !.ref = ref,
                                                        !.order = Finished + 1]]
    ELSE LET parent == stack[p][Depth(p) - 1]
         IN  /\ heap' = [h EXCEPT ![parent.parsed].reply_to_message = Some(ref)]
             /\ stack' = [stack EXCEPT ![p] = <<[parent EXCEPT !.pc = "topic_check"]>>]
             /\ UNCHANGED outcome

----------------------------------------------------------------------------
(* Message._parse, step by step *)

IsPrivate(message) ==
    /\ message.from_id # NULL /\ message.from_id[1].type = "PeerUser"
    /\ message.peer_id # NULL /\ message.peer_id[1].type = "PeerUser"

\* A variant that looks the peers up only when both are missing.
PeersMissingBoth(message, user_table) ==
    /\ message.from_id[1].id \notin user_table
    /\ message.peer_id[1].id \notin user_table

\* Line 734: from_id not in users or peer_id not in users
PeersMissing(message, user_table) ==
    \/ message.from_id[1].id \notin user_table
    \/ message.peer_id[1].id \notin user_table

\* What client.resolve_peer answers: an input peer, or it raises
ResolveAnswers == {"resolved", "PeerIdInvalid", "Other"}

\* Lines 720-739: an empty record returns at once; a private exchange with an
\* unknown peer first awaits client.resolve_peer(from_id).
Begin(p) ==
    /\ At(p, "start")
    /\ LET a == Top(p).a
       IN  IF a.message.type = "MessageEmpty" THEN
               /\ Return(p, Len(heap) + 1, Append(heap, EmptyMessage(a)))
               /\ UNCHANGED <<message_cache, users, chats, topics, log, budget, posts, bound>>
           ELSE IF IsPrivate(a.message) /\ PeersMissing(a.message, users[p]) THEN
               /\ Goto(p, "resolve_from_id")
               /\ Logged(p, "resolve_peer", a.message.from_id[1].id)
               /\ UNCHANGED <<heap, message_cache, users, chats, topics, outcome, budget, posts, bound>>
           ELSE
               /\ Goto(p, "dispatch")
               /\ UNCHANGED <<heap, message_cache, users, chats, topics, outcome, log, budget, posts, bound>>

\* Lines 735-745: an awaited call of the users lookup raised: PeerIdInvalid is
\* passed over, with users as it is; any other error leaves Message._parse.
LookupRaises(p, err) ==
    IF err = "PeerIdInvalid"
    THEN Goto(p, "dispatch") /\ UNCHANGED outcome
    ELSE Raise(p, err)

\* Line 739: client.resolve_peer(from_id) answers; then line 740 awaits
\* client.resolve_peer(peer_id).
ResolveFromId(p, answer) ==
    /\ At(p, "resolve_from_id")
    /\ IF answer = "resolved"
       THEN /\ Goto(p, "resolve_peer_id")
            /\ log' = [log EXCEPT ![p] = @ \o
                   << [depth |-> Depth(p), kind |-> "resolve_peer_answer", arg |-> 0,
                       answer |-> Answer(answer, 0, {})],
                      [depth |-> Depth(p), kind |-> "resolve_peer",
                       arg |-> Top(p).a.message.peer_id[1].id, answer |-> NoAnswer] >>]
            /\ UNCHANGED outcome
       ELSE /\ LookupRaises(p, answer)
            /\ Answered(p, "resolve_peer_answer", Answer(answer, 0, {}))
    /\ UNCHANGED <<heap, message_cache, users, chats, topics, budget, posts, bound>>

\* Line 740: client.resolve_peer(peer_id) answers; then lines 736-742 await
\* client.invoke(raw.functions.users.GetUsers(id=[...])).
ResolvePeerId(p, answer) ==
    /\ At(p, "resolve_peer_id")
    /\ IF answer = "resolved"
       THEN /\ Goto(p, "get_users")
            /\ log' = [log EXCEPT ![p] = @ \o
                   << [depth |-> Depth(p), kind |-> "resolve_peer_answer", arg |-> 0,
                       answer |-> Answer(answer, 0, {})],
                      [depth |-> Depth(p), kind |-> "get_users", arg |-> 0,
                       answer |-> NoAnswer] >>]
            /\ UNCHANGED outcome
       ELSE /\ LookupRaises(p, answer)
            /\ Answered(p, "resolve_peer_answer", Answer(answer, 0, {}))
    /\ UNCHANGED <<heap, message_cache, users, chats, topics, budget, posts, bound>>

\* Lines 736-747: users.GetUsers answers with the users it found, or fails
GetUsersAnswers(message) ==
    { [kind |-> "found", found |-> f] :
        f \in SUBSET {message.from_id[1].id, message.peer_id[1].id} \ {{}} }
    \cup { [kind |-> k, found |-> {}] : k \in {"PeerIdInvalid", "Other"} }

\* A table that holds the answer alone (not what the code does).
UsersReplace(user_table, found) == found

\* Line 747: users.update({i.id: i for i in r})
UsersUpdate(user_table, found) == user_table \cup found

GetUsers(p, answer) ==
    /\ At(p, "get_users")
    /\ answer \in GetUsersAnswers(Top(p).a.message)
    /\ IF answer.kind = "found"
       THEN /\ users' = [users EXCEPT ![p] = UsersUpdate(@, answer.found)]
            /\ UNCHANGED <<chats, topics>>
            /\ Goto(p, "dispatch")
            /\ UNCHANGED outcome
       ELSE /\ LookupRaises(p, answer.kind)
            /\ UNCHANGED <<users, chats, topics>>
    /\ Answered(p, "get_users_answer", Answer(answer.kind, 0, answer.found))
    /\ UNCHANGED <<heap, message_cache, budget, posts, bound>>

\* Lines 791-927 and 1023-1188: the dispatch up to the first awaited
\* sub-decoder; a missing key of users or chats raises KeyError.
DispatchRaises(a, user_table) ==
    IF a.message.type = "MessageService"
    THEN ServiceKeyError(a.message, user_table)
    ELSE ForwardKeyError(a.message, user_table, a.chats)

AwaitsSubDecoder(message) ==
    IF message.type = "MessageService"
    THEN ServiceAwaitsSubDecoder(message)
    ELSE ContentAwaitsSubDecoder(message)

Dispatch(p) ==
    /\ At(p, "dispatch")
    /\ LET a == Top(p).a
       IN  IF DispatchRaises(Current(p), users[p]) THEN
               /\ Raise(p, "KeyError")
               /\ UNCHANGED log
           ELSE IF AwaitsSubDecoder(a.message) THEN
               /\ Goto(p, "sub_decoder")
               /\ Logged(p, "sub_decoder", 0)
               /\ UNCHANGED outcome
           ELSE
               /\ Goto(p, "build")
               /\ UNCHANGED <<outcome, log>>
    /\ UNCHANGED <<heap, message_cache, users, chats, topics, budget, posts, bound>>

\* The awaited sub-decoder returns, or fails with an error of its own.
SubDecoder(p, answer) ==
    /\ At(p, "sub_decoder")
    /\ IF answer = "ok"
       THEN Goto(p, "build") /\ UNCHANGED outcome
       ELSE Raise(p, "Other")
    /\ Answered(p, "sub_decoder_answer", Answer(answer, 0, {}))
    /\ UNCHANGED <<heap, message_cache, users, chats, topics, budget, posts, bound>>

\* Lines 929-1008: the service Message is built; a pin action awaits the
\* pinned message, a game score with a reply header the replied message.
BuildService(p) ==
    /\ At(p, "build")
    /\ Top(p).a.message.type = "MessageService"
    /\ LET a == Top(p).a
           tag == a.message.action[1].tag
           ref == Len(heap) + 1
           built == ServiceMessage(a, users[p])
       IN  IF tag = "MessageActionPinMessage" THEN
               /\ heap' = Append(heap, built)
               /\ stack' = SetTop(p, "pinned", ref)
               /\ Logged(p, "pinned", 0)
           ELSE IF tag = "MessageActionGameScore" THEN
               /\ heap' = Append(heap, [built EXCEPT !.game_high_score = Some("GameHighScore")])
               /\ IF a.message.reply_to # NULL /\ a.replies # 0
                  THEN stack' = SetTop(p, "game_reply", ref) /\ Logged(p, "game_reply", 0)
                  ELSE stack' = SetTop(p, "finish", ref) /\ UNCHANGED log
           ELSE
               /\ heap' = Append(heap, built)
               /\ stack' = SetTop(p, "finish", ref)
               /\ UNCHANGED log
    /\ UNCHANGED <<message_cache, users, chats, topics, outcome, budget, posts, bound>>

\* The answers of client.get_messages: a message, or a failure
FetchFailures == {"MessageIdsEmpty", "ChannelPrivate", "Other"}
FetchAnswers(ids) ==
    { [kind |-> "ok", id |-> i] : i \in ids } \cup { [kind |-> k, id |-> 0] : k \in FetchFailures }

\* A variant that tags the message before the lookup is awaited.
PinnedAssignsTagFirst(kind, got) ==
    [ service |-> Some("PINNED_MESSAGE") ]
    @@ (IF kind = "ok" THEN [pinned_message |-> Some(got)] ELSE <<>>)

\* Lines 985-993: what the lookup of the pinned message assigns; the service
\* tag follows the awaited assignment, so a failure assigns neither.
PinnedAssigns(kind, got) ==
    IF kind = "ok"
    THEN [pinned_message |-> Some(got), service |-> Some("PINNED_MESSAGE")]
    ELSE <<>>

\* Lines 983-993: get_messages(pinned=True, replies=0); the pinned message is
\* another message of the chat.
Pinned(p, answer) ==
    /\ At(p, "pinned")
    /\ answer \in FetchAnswers((1..MaxMsgId) \ {heap[Top(p).parsed].id[1]})
    /\ LET ref == Top(p).parsed
           got == Len(heap) + 1
       IN  CASE answer.kind = "ok" ->
                    /\ heap' = [Append(heap, FetchedMessage(heap[ref].chat, answer.id))
                                    EXCEPT ![ref] = Assign(@, PinnedAssigns(answer.kind, got))]
                    /\ Goto(p, "finish")
                    /\ UNCHANGED outcome
             [] answer.kind \in {"MessageIdsEmpty", "ChannelPrivate"} ->
                    /\ heap' = [heap EXCEPT ![ref] = Assign(@, PinnedAssigns(answer.kind, got))]
                    /\ Goto(p, "finish")
                    /\ UNCHANGED outcome
             [] OTHER ->
                    /\ Raise(p, "Other")
                    /\ UNCHANGED heap
    /\ Answered(p, "pinned_answer", Answer(answer.kind, answer.id, {}))
    /\ UNCHANGED <<message_cache, users, chats, topics, budget, posts, bound>>

\* The id of the message a reply header points at (1 when it names none)
ReplyTargetId(message) == OrInt(message.reply_to[1].reply_to_msg_id, Some(1))[1]

\* Lines 997-1008: get_messages(message_ids=message.id, reply=True, replies=0)
GameReply(p, answer) ==
    /\ At(p, "game_reply")
    /\ answer \in FetchAnswers({ReplyTargetId(Top(p).a.message)})
    /\ LET ref == Top(p).parsed
           got == Len(heap) + 1
       IN  CASE answer.kind = "ok" ->
                    /\ heap' = [Append(heap, FetchedMessage(heap[ref].chat, answer.id))
                                    EXCEPT ![ref].reply_to_message = Some(got),
                                           ![ref].service = Some("GAME_HIGH_SCORE")]
                    /\ Goto(p, "finish")
                    /\ UNCHANGED outcome
             [] answer.kind \in {"MessageIdsEmpty", "ChannelPrivate"} ->
                    /\ Goto(p, "finish")
                    /\ UNCHANGED <<heap, outcome>>
             [] OTHER ->
                    /\ Raise(p, "Other")
                    /\ UNCHANGED heap
    /\ Answered(p, "game_reply_answer", Answer(answer.kind, answer.id, {}))
    /\ UNCHANGED <<message_cache, users, chats, topics, budget, posts, bound>>

\* Lines 1010-1019: the cache write, then the thread id of a forum-topic
\* reply header, assigned to the object the cache already holds.
ServiceThread(message) ==
    IF message.reply_to # NULL /\ message.reply_to[1].forum_topic
    THEN [topic_message |-> Some(TRUE), message_thread_id |-> ThreadId(message.reply_to[1])]
    ELSE <<>>

FinishService(p) ==
    /\ At(p, "finish")
    /\ Top(p).a.message.type = "MessageService"
    /\ LET ref == Top(p).parsed
           parsed_message == heap[ref]
       IN  /\ message_cache' = CacheSet(<<parsed_message.chat[1].id, parsed_message.id[1]>>, ref)
           /\ Return(p, ref, [heap EXCEPT ![ref] = Assign(@, ServiceThread(Top(p).a.message))])
    /\ UNCHANGED <<users, chats, topics, log, budget, posts, bound>>

\* Lines 1021-1340: the content Message is built and the reply header read.
BuildContent(p) ==
    /\ At(p, "build")
    /\ Top(p).a.message.type = "Message"
    /\ heap' = Append(heap, ContentMessage(Current(p), users[p]))
    /\ stack' = SetTop(p, "reply", Len(heap) + 1)
    /\ UNCHANGED <<message_cache, users, chats, topics, outcome, log, budget, posts, bound>>

\* A variant that hands the depth on undiminished.
FetchDepthKept(replies) == replies

\* Line 1365: the replies argument of the get_messages call after a cache miss
FetchDepth(replies) == replies - 1

\* A key that ignores the origin peer of the header (not what the code does).
ReplyKeyOwnChat(a, parsed_message) ==
    [chat_id |-> parsed_message.chat[1].id, id |-> parsed_message.reply_to_message_id]

\* Lines 1353-1359: the cache key and the lookup a cache miss falls back to
ReplyKey(a, parsed_message) ==
    LET reply_to == a.message.reply_to[1]
    IN  IF reply_to.reply_to_peer_id # NULL
        THEN [chat_id |-> get_peer_id(reply_to.reply_to_peer_id), id |-> reply_to.reply_to_msg_id]
        ELSE [chat_id |-> parsed_message.chat[1].id, id |-> parsed_message.reply_to_message_id]

\* A recursive call that is handed the record itself (not what the code does).
NestedCallOfSelf(a) ==
    [ a EXCEPT !.replies = 0, !.raw_reply_to_message = NULL, !.topics = NULL ]

\* The Message._parse call of line 1344: the same users and chats, replies=0,
\* every other argument at its default.
NestedCall(a) ==
    [ a EXCEPT !.message = a.raw_reply_to_message[1],
               !.replies = 0,
               !.raw_reply_to_message = NULL,
               !.topics = NULL ]

\* Lines 1342-1378: how the replied message is resolved
ReplyResolve(p) ==
    /\ At(p, "reply")
    /\ LET a == Top(p).a
           ref == Top(p).parsed
           key == ReplyKey(a, heap[ref])
           cached == CacheGet(key.chat_id, key.id)
       IN  IF a.message.reply_to = NULL \/ a.replies = 0 THEN
               /\ Goto(p, "topic_check")
               /\ UNCHANGED <<heap, log>>
           ELSE IF a.raw_reply_to_message # NULL THEN
               /\ stack' = [stack EXCEPT ![p] = <<[Top(p) EXCEPT !.pc = "nested"], Frame(NestedCall(a))>>]
               /\ Logged(p, "decode", 0)
               /\ UNCHANGED heap
           ELSE IF a.message.reply_to[1].type = "MessageReplyHeader" THEN
               IF cached # NULL THEN
                   /\ heap' = [heap EXCEPT ![ref].reply_to_message = cached]
                   /\ Goto(p, "topic_check")
                   /\ UNCHANGED log
               ELSE
                   /\ Goto(p, "reply_fetch")
                   /\ Logged(p, "reply_fetch", FetchDepth(a.replies))
                   /\ UNCHANGED heap
           ELSE IF a.me = "user" THEN
               /\ Goto(p, "story")
               /\ Logged(p, "story", 0)
               /\ UNCHANGED heap
           ELSE
               /\ Goto(p, "topic_check")
               /\ UNCHANGED <<heap, log>>
    /\ UNCHANGED <<message_cache, users, chats, topics, outcome, budget, posts, bound>>

\* Lines 1363-1372: get_messages(replies=replies - 1, ...) after a cache miss
ReplyFetch(p, answer) ==
    /\ At(p, "reply_fetch")
    /\ answer \in FetchAnswers({ReplyTargetId(Top(p).a.message)})
    /\ LET a == Top(p).a
           ref == Top(p).parsed
           key == ReplyKey(a, heap[ref])
           got == Len(heap) + 1
           chat == Some([id |-> key.chat_id, is_forum |-> heap[ref].chat[1].is_forum])
       IN  CASE answer.kind = "ok" ->
                    /\ heap' = [Append(heap, FetchedMessage(chat, answer.id))
                                    EXCEPT ![ref].reply_to_message = Some(got)]
                    /\ Goto(p, "topic_check")
                    /\ UNCHANGED outcome
             [] answer.kind \in {"MessageIdsEmpty", "ChannelPrivate"} ->
                    /\ Goto(p, "topic_check")
                    /\ UNCHANGED <<heap, outcome>>
             [] OTHER ->
                    /\ Raise(p, "Other")
                    /\ UNCHANGED heap
    /\ Answered(p, "reply_fetch_answer", Answer(answer.kind, answer.id, {}))
    /\ UNCHANGED <<message_cache, users, chats, topics, budget, posts, bound>>

\* The answers of client.get_stories: a story, or a failure
StoryAnswers == {"ok"} \cup FetchFailures

\* Lines 1373-1378: get_stories, none of whose failures is caught
Story(p, answer) ==
    /\ At(p, "story")
    /\ IF answer = "ok"
       THEN /\ heap' = [heap EXCEPT ![Top(p).parsed].reply_to_story = Some("Story")]
            /\ Goto(p, "topic_check")
            /\ UNCHANGED outcome
       ELSE /\ Raise(p, answer)
            /\ UNCHANGED heap
    /\ Answered(p, "story_answer", Answer(answer, 0, {}))
    /\ UNCHANGED <<message_cache, users, chats, topics, budget, posts, bound>>

\* A variant that looks the topic up for a bot too.
TopicWantedForBots(a, parsed_message) ==
    /\ parsed_message.topic = NULL
    /\ parsed_message.chat[1].is_forum
    /\ a.me # "none"

\* Line 1380: whether the topic is looked up; client.me is a user, a bot or
\* None ("none")
TopicWanted(a, parsed_message) ==
    /\ parsed_message.topic = NULL
    /\ parsed_message.chat[1].is_forum
    /\ a.me = "user"

TopicCheck(p) ==
    /\ At(p, "topic_check")
    /\ IF TopicWanted(Top(p).a, heap[Top(p).parsed])
       THEN /\ Goto(p, "topic")
            /\ Logged(p, "topic", OrInt(heap[Top(p).parsed].message_thread_id, Some(1))[1])
       ELSE /\ Goto(p, "finish")
            /\ UNCHANGED log
    /\ UNCHANGED <<heap, message_cache, users, chats, topics, outcome, budget, posts, bound>>

\* Lines 1381-1387: get_forum_topics_by_id(topic_ids=message_thread_id or 1)
TopicAnswers == {"ok", "ChannelPrivate", "ChannelForumMissing", "Other"}

Topic(p, answer) ==
    /\ At(p, "topic")
    /\ LET ref == Top(p).parsed
           topic_id == OrInt(heap[ref].message_thread_id, Some(1))[1]
       IN  CASE answer = "ok" ->
                    /\ heap' = [heap EXCEPT ![ref].topic = Some([topic_id |-> topic_id])]
                    /\ Goto(p, "finish")
                    /\ UNCHANGED outcome
             [] answer \in {"ChannelPrivate", "ChannelForumMissing"} ->
                    /\ Goto(p, "finish")
                    /\ UNCHANGED <<heap, outcome>>
             [] OTHER ->
                    /\ Raise(p, "Other")
                    /\ UNCHANGED heap
    /\ Answered(p, "topic_answer", Answer(answer, 0, {}))
    /\ UNCHANGED <<message_cache, users, chats, topics, budget, posts, bound>>

\* A variant that caches every content message.
CachesAlways(parsed_message) == TRUE

\* Line 1389: poll messages are not cached
CachesContent(parsed_message) == parsed_message.poll = NULL

\* Lines 1389-1392
FinishContent(p) ==
    /\ At(p, "finish")
    /\ Top(p).a.message.type = "Message"
    /\ LET ref == Top(p).parsed
           parsed_message == heap[ref]
       IN  /\ message_cache' =
                  IF CachesContent(parsed_message)
                  THEN CacheSet(<<parsed_message.chat[1].id, parsed_message.id[1]>>, ref)
                  ELSE message_cache
           /\ Return(p, ref, heap)
    /\ UNCHANGED <<users, chats, topics, log, budget, posts, bound>>

----------------------------------------------------------------------------
(* The raw records and arguments the calls are drawn from *)

MsgIds == 1..MaxMsgId

TheChannel == Peer("PeerChannel", 5)
GroupPeers == [from_id |-> Peer("PeerUser", 1), peer_id |-> TheChannel]
ChannelPeers == [from_id |-> NULL, peer_id |-> TheChannel]
PrivatePeers == [from_id |-> Peer("PeerUser", 1), peer_id |-> Peer("PeerUser", 2)]
PeerCases == {GroupPeers, ChannelPeers, PrivatePeers}

Raw(type, id, peers) ==
    [ type |-> type, id |-> id, date |-> 1,
      from_id |-> peers.from_id, peer_id |-> peers.peer_id,
      action |-> NULL, media |-> NULL, message |-> "", entities |-> <<>>,
      reply_markup |-> NULL, fwd_from |-> NULL, reply_to |-> NULL ]

Action(tag) ==
    [ tag |-> tag, users |-> <<>>, user_id |-> 0, title |-> NULL, hidden |-> NULL,
      closed |-> NULL, duration |-> NULL, reason |-> NULL, domain |-> NULL,
      channel_id |-> 0, chat_id |-> 0, period |-> 0, boosts |-> 0, message |-> "" ]

\* The actions without fields the decoder reads; the last is one it does not know.
PlainActionTags ==
    { "MessageActionChatJoinedByLink", "MessageActionChatJoinedByRequest",
      "MessageActionChatDeletePhoto", "MessageActionChatCreate",
      "MessageActionChannelCreate", "MessageActionChatEditPhoto",
      "MessageActionTopicCreate", "MessageActionGroupCallScheduled",
      "MessageActionInviteToGroupCall", "MessageActionWebViewDataSentMe",
      "MessageActionGiveawayLaunch", "MessageActionGiveawayResults",
      "MessageActionGiftCode", "MessageActionRequestedPeer",
      "MessageActionRequestedPeerSentMe", "MessageActionPaymentSent",
      "MessageActionPaymentSentMe", "MessageActionPaymentRefunded",
      "MessageActionStarGift", "MessageActionStarGiftUnique",
      "MessageActionScreenshotTaken", "MessageActionContactSignUp",
      "MessageActionPinMessage", "MessageActionGameScore",
      "MessageActionHistoryClear" }

OptBool == {NULL, Some(FALSE), Some(TRUE)}

Actions ==
    { Action(t) : t \in PlainActionTags }
    \cup { [Action("MessageActionChatAddUser") EXCEPT !.users = u] : u \in {<<1>>, <<2>>, <<1, 2>>} }
    \cup { [Action("MessageActionChatDeleteUser") EXCEPT !.user_id = i] : i \in UserIds }
    \cup { [Action("MessageActionChatEditTitle") EXCEPT !.title = Some("title")] }
    \cup { [Action("MessageActionChatMigrateTo") EXCEPT !.channel_id = 5] }
    \cup { [Action("MessageActionChannelMigrateFrom") EXCEPT !.chat_id = 4] }
    \cup { [Action("MessageActionCustomAction") EXCEPT !.message = "custom"] }
    \cup { [Action("MessageActionTopicEdit") EXCEPT !.title = t, !.hidden = h, !.closed = c] :
             t \in {NULL, Some(""), Some("title")}, h \in OptBool, c \in OptBool }
    \cup { [Action("MessageActionGroupCall") EXCEPT !.duration = d] : d \in {NULL, Some(60)} }
    \cup { [Action("MessageActionPhoneCall") EXCEPT !.reason = r] : r \in {NULL, Some("hangup")} }
    \cup { [Action("MessageActionSetMessagesTTL") EXCEPT !.period = n] : n \in {0, 60} }
    \cup { [Action("MessageActionBoostApply") EXCEPT !.boosts = 1] }
    \cup { [Action("MessageActionBotAllowed") EXCEPT !.domain = d] : d \in {NULL, Some("example.org")} }

Header(forum_topic, top_id, msg_id) ==
    [ type |-> "MessageReplyHeader", forum_topic |-> forum_topic,
      reply_to_top_id |-> top_id, reply_to_msg_id |-> msg_id, reply_to_peer_id |-> NULL,
      quote |-> FALSE, quote_text |-> "", quote_entities |-> <<>>,
      peer |-> NULL, story_id |-> 0 ]

StoryHeader ==
    [ Header(FALSE, NULL, NULL) EXCEPT !.type = "MessageReplyStoryHeader",
                                       !.peer = Peer("PeerUser", 1), !.story_id = 7 ]

\* The reply headers of a message with the given id: it replies to an
\* earlier message of the chat, in a forum topic or not.
OptIds(ids) == {NULL} \cup {Some(i) : i \in ids}
TopicHeaders(id) ==
    { Header(TRUE, top, msg) : top \in {NULL, Some(0), Some(3)}, msg \in OptIds(1..(id - 1)) }
PlainHeaders(id) == { Header(FALSE, NULL, Some(i)) : i \in 1..(id - 1) }

Media(type) ==
    [ type |-> type, geo |-> "GeoPoint", document |-> "Document", attributes |-> {},
      round_message |-> FALSE, voice |-> FALSE, webpage |-> "WebPage" ]

\* The last kind is one the decoder does not know.
PlainMediaTypes ==
    { "MessageMediaPhoto", "MessageMediaContact", "MessageMediaVenue", "MessageMediaGame",
      "MessageMediaGiveaway", "MessageMediaGiveawayResults", "MessageMediaInvoice",
      "MessageMediaStory", "MessageMediaPoll", "MessageMediaDice",
      "MessageMediaPaidMedia", "MessageMediaUnsupported" }

DocumentAttributes ==
    { "DocumentAttributeAnimated", "DocumentAttributeSticker", "DocumentAttributeVideo",
      "DocumentAttributeAudio" }

Medias ==
    { Media(t) : t \in PlainMediaTypes }
    \cup { [Media("MessageMediaGeo") EXCEPT !.geo = g] : g \in {"GeoPoint", "GeoPointEmpty"} }
    \cup { [Media("MessageMediaWebPage") EXCEPT !.webpage = w] : w \in {"WebPage", "WebPageEmpty"} }
    \cup { [Media("MessageMediaDocument") EXCEPT !.document = "DocumentEmpty"] }
    \cup { [Media("MessageMediaDocument") EXCEPT !.attributes = s, !.round_message = r, !.voice = v] :
             s \in SUBSET DocumentAttributes, r \in BOOLEAN, v \in BOOLEAN }

ForwardHeader(from_id, from_name) ==
    [ date |-> 1, from_id |-> from_id, from_name |-> from_name,
      channel_post |-> IF from_id # NULL /\ from_id[1].type = "PeerChannel" THEN Some(9) ELSE NULL,
      post_author |-> IF from_id # NULL /\ from_id[1].type = "PeerChannel" THEN Some("author") ELSE NULL ]

\* The last ones carry a post id and an author the decoder has no use for.
Forwards ==
    {NULL} \cup { Some(ForwardHeader(f, n)) :
                    f \in {NULL, Peer("PeerUser", 2), TheChannel}, n \in {NULL, Some(""), Some("name")} }
           \cup { Some([ForwardHeader(f, NULL) EXCEPT !.channel_post = Some(9), !.post_author = Some("author")]) :
                    f \in {NULL, Peer("PeerUser", 2)} }

Markups ==
    { NULL, Some("ReplyKeyboardForceReply"), Some("ReplyKeyboardMarkup"),
      Some("ReplyInlineMarkup"), Some("ReplyKeyboardHide"), Some("ReplyKeyboardUnknown") }

Bodies ==
    { [message |-> t, entities |-> e] :
        t \in {"", "hi"},
        e \in { <<>>, <<"MessageEntityBold">>, <<"MessageEntityBlockquote">>,
                <<"MessageEntityUnknown">>, <<"MessageEntityUnknown", "MessageEntityBold">> } }

Replies == 0..MaxReplies
ConnectionIds == {NULL, Some("bc")}

\* Message._parse(client, message, users, chats): the other arguments at
\* their defaults; forum and me describe the chat and the logged-in account.
Args(message, user_table) ==
    [ message |-> message, users |-> user_table, chats |-> ChannelIds, topics |-> NULL,
      replies |-> 1, business_connection_id |-> NULL, raw_reply_to_message |-> NULL,
      forum |-> FALSE, me |-> "user" ]

ServiceRaw(id, peers, action, reply_to) ==
    [Raw("MessageService", id, peers) EXCEPT !.action = Some(action), !.reply_to = reply_to]

ContentRaw(id, peers, media, body, reply_to) ==
    [Raw("Message", id, peers) EXCEPT !.media = media, !.message = body.message,
                                      !.entities = body.entities, !.reply_to = reply_to]

PlainBody == [message |-> "hi", entities |-> <<>>]

\* The reply headers of a content message
QuoteHeader(id, entities) ==
    [Header(FALSE, NULL, Some(id)) EXCEPT !.quote = TRUE, !.quote_text = "quoted",
                                          !.quote_entities = entities]
CrossChatHeader(id) == [Header(FALSE, NULL, Some(id)) EXCEPT !.reply_to_peer_id = Peer("PeerUser", 2)]

ContentHeaders(id) ==
    {NULL, Some(StoryHeader)}
    \cup { Some(h) : h \in TopicHeaders(id) \cup PlainHeaders(id) }
    \cup { Some(QuoteHeader(i, e)) : i \in 1..(id - 1), e \in {<<>>, <<"MessageEntityBold">>} }
    \cup { Some(CrossChatHeader(i)) : i \in MsgIds }

\* The raw_reply_to_message a caller hands over with a message: an earlier
\* record of the chat, itself a reply, a pin or deleted.
RecordsWithId(i) ==
    { ContentRaw(i, GroupPeers, NULL, PlainBody, reply_to) :
        reply_to \in {NULL} \cup {Some(h) : h \in PlainHeaders(i)} }
    \cup { ServiceRaw(i, GroupPeers, Action("MessageActionPinMessage"), NULL),
           Raw("MessageEmpty", i, GroupPeers) }

Prefetched(id) == {NULL} \cup UNION { {Some(m) : m \in RecordsWithId(i)} : i \in 1..(id - 1) }

ReplyMedias ==
    { NULL, Some(Media("MessageMediaPhoto")), Some(Media("MessageMediaPoll")),
      Some(Media("MessageMediaWebPage")) }

----------------------------------------------------------------------------
(* The specification *)

\* The chats a message can be cached under: the channel and the private chats.
ChatIds == {get_peer_id(TheChannel)} \cup UserIds
EmptyCache == [k \in ChatIds \X MsgIds |-> NULL]

\* order tells the how-manieth of the calls in progress it was to end.
Idle == [status |-> "idle", ref |-> 0, err |-> "", a |-> NULL, before |-> NULL, order |-> 0]

\* The cache as an earlier Message._parse call of message 1 of the channel left it.
SeedArgs == Args(ContentRaw(1, GroupPeers, NULL, PlainBody, NULL), UserIds)
SeedCache == [EmptyCache EXCEPT ![OwnKey(SeedArgs)] = Some(1)]

\* No search_posts generator, no bound method in progress.
NoSearch == [pc |-> "none"]
NoBound == [pc |-> "none"]

InitCommon ==
    /\ stack = [p \in Callers |-> <<>>]
    /\ users = [p \in Callers |-> {}]
    /\ chats = [p \in Callers |-> {}]
    /\ topics = [p \in Callers |-> NULL]
    /\ outcome = [p \in Callers |-> Idle]
    /\ log = [p \in Callers |-> <<>>]
    /\ posts = NoSearch
    /\ bound = NoBound

\* One call on an empty or a seeded cache.
Init ==
    /\ InitCommon
    /\ budget = 1
    /\ \/ heap = <<>> /\ message_cache = EmptyCache
       \/ heap = <<ContentMessage(SeedArgs, UserIds)>> /\ message_cache = SeedCache

\* A caller may start a call while it has calls left and runs none.
CanCall(p) == budget > 0 /\ stack[p] = <<>> /\ Scheduled(p)

\* A caller awaits Message._parse(client, message, users, chats, ...).
Call(p, a) ==
    /\ stack' = [stack EXCEPT ![p] = <<Frame(a)>>]
    /\ users' = [users EXCEPT ![p] = a.users]
    /\ chats' = [chats EXCEPT ![p] = a.chats]
    /\ topics' = [topics EXCEPT ![p] = a.topics]
    /\ outcome' = [outcome EXCEPT ![p] =
                      [ status |-> "running", ref |-> 0, err |-> "", a |-> Some(a),
                        before |-> message_cache[OwnKey(a)], order |-> 0 ]]
    /\ log' = [log EXCEPT ![p] = <<>>]
    /\ budget' = budget - 1
    /\ UNCHANGED <<heap, message_cache, posts, bound>>

\* Every action, under every depth, with and without a reply header.
ServiceHeaders == { NULL, Some(Header(TRUE, Some(3), Some(1))), Some(Header(FALSE, NULL, Some(1))) }

CallService(p) ==
    /\ CanCall(p)
    /\ \E action \in Actions, r \in Replies, reply_to \in ServiceHeaders :
        Call(p, [Args(ServiceRaw(2, GroupPeers, action, reply_to), UserIds) EXCEPT !.replies = r])

\* The actions that name users, with every sender and users table.
UserActionTags ==
    { "MessageActionChatAddUser", "MessageActionChatDeleteUser", "MessageActionChatJoinedByLink",
      "MessageActionChatDeletePhoto", "MessageActionPinMessage", "MessageActionHistoryClear" }

CallServicePeers(p) ==
    /\ CanCall(p)
    /\ \E peers \in PeerCases, user_table \in SUBSET UserIds, b \in ConnectionIds,
          action \in {x \in Actions : x.tag \in UserActionTags} :
        Call(p, [Args(ServiceRaw(2, peers, action, NULL), user_table)
                    EXCEPT !.business_connection_id = b])

\* Every media kind under every body.
CallMedia(p) ==
    /\ CanCall(p)
    /\ \E media \in {NULL} \cup {Some(m) : m \in Medias}, body \in Bodies :
        Call(p, Args(ContentRaw(2, GroupPeers, media, body, NULL), UserIds))

\* Every reply header, with every depth and every record handed over with it.
CallReply(p) ==
    /\ CanCall(p)
    /\ \E id \in MsgIds, media \in {NULL, Some(Media("MessageMediaPoll"))}, r \in Replies :
        \E reply_to \in ContentHeaders(id), pre \in Prefetched(id) :
            Call(p, [Args(ContentRaw(id, GroupPeers, media, PlainBody, reply_to), UserIds)
                        EXCEPT !.replies = r, !.raw_reply_to_message = pre, !.me = "bot"])

\* Forum chats and topic tables, for a user and for a bot, the replied
\* message handed over or not.
CallTopic(p) ==
    /\ CanCall(p)
    /\ \E reply_to \in {NULL, Some(StoryHeader), Some(Header(TRUE, Some(3), Some(1)))},
          topic_table \in {NULL, Some({}), Some({3})}, forum \in BOOLEAN, me \in {"user", "bot", "none"},
          media \in ReplyMedias,
          pre \in {NULL, Some(ContentRaw(1, GroupPeers, NULL, PlainBody, NULL))} :
        Call(p, [Args(ContentRaw(2, GroupPeers, media, PlainBody, reply_to), UserIds)
                    EXCEPT !.topics = topic_table, !.forum = forum, !.me = me,
                           !.raw_reply_to_message = pre])

\* Every reply markup and forward header, with every users and chats table.
CallMarkupForward(p) ==
    /\ CanCall(p)
    /\ \E markup \in Markups, fwd \in Forwards,
          user_table \in SUBSET UserIds, chat_table \in SUBSET ChannelIds :
        Call(p, [Args([ContentRaw(2, GroupPeers, NULL, PlainBody, NULL)
                          EXCEPT !.reply_markup = markup, !.fwd_from = fwd], user_table)
                    EXCEPT !.chats = chat_table])

\* Private exchanges, which look the peers up.
CallPrivate(p) ==
    /\ CanCall(p)
    /\ \E media \in {NULL, Some(Media("MessageMediaPoll"))}, user_table \in SUBSET UserIds :
        Call(p, Args(ContentRaw(2, PrivatePeers, media, PlainBody, NULL), user_table))

CallEmpty(p) ==
    /\ CanCall(p)
    /\ \E id \in MsgIds, b \in ConnectionIds, r \in Replies :
        Call(p, [Args(Raw("MessageEmpty", id, ChannelPeers), UserIds)
                    EXCEPT !.business_connection_id = b, !.replies = r])

\* Every forum-topic reply header, on a service record and on a content record.
ThreadHeaders(id) ==
    TopicHeaders(id) \cup { Header(TRUE, top, Some(0)) : top \in {NULL, Some(0), Some(3)} }

CallThread(p) ==
    /\ CanCall(p)
    /\ \E id \in MsgIds, service \in BOOLEAN :
        \E h \in ThreadHeaders(id) :
            Call(p, Args(IF service
                         THEN ServiceRaw(id, GroupPeers, Action("MessageActionChatDeletePhoto"), Some(h))
                         ELSE ContentRaw(id, GroupPeers, NULL, PlainBody, Some(h)), UserIds))

\* The steps of a Message._parse call in progress
Step(p) ==
    \/ Begin(p)
    \/ \E answer \in ResolveAnswers : ResolveFromId(p, answer)
    \/ \E answer \in ResolveAnswers : ResolvePeerId(p, answer)
    \/ \E answer \in GetUsersAnswers(PrivatePeers) : GetUsers(p, answer)
    \/ Dispatch(p)
    \/ \E answer \in {"ok", "Other"} : SubDecoder(p, answer)
    \/ BuildService(p)
    \/ \E answer \in FetchAnswers(MsgIds) : Pinned(p, answer)
    \/ \E answer \in FetchAnswers(MsgIds) : GameReply(p, answer)
    \/ FinishService(p)
    \/ BuildContent(p)
    \/ ReplyResolve(p)
    \/ \E answer \in FetchAnswers(MsgIds) : ReplyFetch(p, answer)
    \/ \E answer \in StoryAnswers : Story(p, answer)
    \/ TopicCheck(p)
    \/ \E answer \in TopicAnswers : Topic(p, answer)
    \/ FinishContent(p)

Next ==
    \/ CallService(1)
    \/ CallServicePeers(1)
    \/ CallMedia(1)
    \/ CallReply(1)
    \/ CallTopic(1)
    \/ CallMarkupForward(1)
    \/ CallPrivate(1)
    \/ CallEmpty(1)
    \/ CallThread(1)
    \/ Step(1)

Spec == Init /\ [][Next]_vars

----------------------------------------------------------------------------
(* Calls in a row on one client: the cache a call finds is the one the
   calls before it left *)

\* A message of the chat, a reply to an earlier one or not, at every depth.
CallChain(p) ==
    /\ CanCall(p)
    /\ \E id \in MsgIds, r \in Replies :
        \E reply_to \in {NULL} \cup {Some(h) : h \in PlainHeaders(id)} :
            Call(p, [Args(ContentRaw(id, GroupPeers, NULL, PlainBody, reply_to), UserIds)
                        EXCEPT !.replies = r, !.me = "bot"])

\* A reply handed over together with the record it replies to.
CallPrefetched(p) ==
    /\ CanCall(p)
    /\ \E id \in 2..MaxMsgId :
        \E pre \in RecordsWithId(id - 1) :
            Call(p, [Args(ContentRaw(id, GroupPeers, NULL, PlainBody,
                                     Some(Header(FALSE, NULL, Some(id - 1)))), UserIds)
                        EXCEPT !.raw_reply_to_message = Some(pre), !.me = "bot"])

\* One record of every other path through Message._parse.
OtherCalls ==
    { Args(ContentRaw(1, PrivatePeers, NULL, PlainBody, NULL), {}),
      Args(ContentRaw(1, GroupPeers, Some(Media("MessageMediaPoll")), PlainBody, NULL), UserIds),
      Args(ContentRaw(1, GroupPeers, Some(Media("MessageMediaStory")), PlainBody, NULL), UserIds),
      Args(ContentRaw(1, GroupPeers, NULL, PlainBody, Some(StoryHeader)), UserIds),
      [Args(ContentRaw(1, GroupPeers, NULL, PlainBody, NULL), UserIds) EXCEPT !.forum = TRUE],
      Args(ServiceRaw(2, GroupPeers, Action("MessageActionPinMessage"), NULL), UserIds),
      Args(ServiceRaw(2, GroupPeers, Action("MessageActionGameScore"),
                      Some(Header(FALSE, NULL, Some(1)))), UserIds),
      Args(Raw("MessageEmpty", 1, ChannelPeers), UserIds) }

CallOther(p) ==
    /\ CanCall(p)
    /\ \E a \in OtherCalls : Call(p, a)

InitSeq ==
    /\ InitCommon
    /\ budget = MaxCalls
    /\ heap = <<>>
    /\ message_cache = EmptyCache

NextSeq ==
    \/ CallChain(1)
    \/ CallPrefetched(1)
    \/ CallOther(1)
    \/ Step(1)

SpecSeq == InitSeq /\ [][NextSeq]_vars

----------------------------------------------------------------------------
(* Client.search_posts (search_posts.py, lines 57-96): an async generator
   that follows the server's cursor page by page *)

Abs(n) == IF n < 0 THEN -n ELSE n
Min(a, b) == IF a < b THEN a ELSE b

\* A Python int that may pass 2^31 - 1, the largest integer TLC represents,
\* is held as two limbs: the value of [hi, lo] is hi * LimbBase + lo, with
\* 0 <= lo < LimbBase.
LimbBase == 65536
Wide(n) == [hi |-> n \div LimbBase, lo |-> n % LimbBase]
Narrow(w) == w.hi * LimbBase + w.lo

\* a < b, both held as limbs
WideLess(a, b) == a.hi < b.hi \/ (a.hi = b.hi /\ a.lo < b.lo)

\* 1 << 31 = 2147483648 = 32768 * 65536
NoLimit == [hi |-> 32768, lo |-> 0]
\* the most posts one channels.SearchPosts request asks for (line 59)
PageSize == 100

\* Line 58 without the abs() (not what the code does).
TotalSigned(limit) == IF limit # 0 THEN Wide(limit) ELSE NoLimit

\* Line 58: total = abs(limit) or (1 << 31)
Total(limit) == IF Abs(limit) # 0 THEN Wide(Abs(limit)) ELSE NoLimit

\* Line 59: limit = min(100, total)
PageLimit(total) == IF WideLess(total, Wide(PageSize)) THEN Narrow(total) ELSE PageSize

\* The posts the server holds for the hashtag, newest first: post i is the
\* i-th in the server's order.
MaxPosts == 3
ServerSizes == (0..MaxPosts) \cup ((PageSize - 1)..(PageSize + MaxPosts - 1))
ServerCaps == {1, 2, PageSize}
Limits == {0} \cup {l : l \in -MaxPosts..MaxPosts}
              \cup ((PageSize - 1)..(PageSize + 1)) \cup {-(PageSize + 1)}

Post(i) == [id |-> i, date |-> i, chat |-> [id |-> -i]]

PostsFromTo(i, j) == IF i > j THEN <<>> ELSE [k \in 1..(j - i + 1) |-> Post(i + k - 1)]

\* channels.SearchPosts answered: the posts after the offset, at most `limit`
\* of them and at most as many as the server gives in one answer; the first
\* request has the zero offset.
SearchPostsAnswer(server, cap, offset, limit) ==
    PostsFromTo(offset.offset_id + 1, Min(server, offset.offset_id + Min(limit, cap)))

ZeroOffset == [offset_rate |-> 0, offset_peer |-> "InputPeerEmpty", offset_id |-> 0]

\* An offset that stays at the start (not what the code does).
NextOffsetZero(last) == [offset_rate |-> 0, offset_peer |-> "InputPeerEmpty", offset_id |-> 0]

\* Lines 86-88: the offset of the next request, from the last message of a page
NextOffset(last) ==
    [offset_rate |-> last.date, offset_peer |-> last.chat.id, offset_id |-> last.id]

\* Lines 69-75: the channels.SearchPosts request, from the locals
SearchPosts(offset, limit) == [offset |-> offset, limit |-> limit]

\* Lines 57-75: up to the first await, the first request sent.  pc is where
\* the generator is suspended: in one of its three awaits or at its yield.
StartSearch(limit_arg, server, cap) ==
    [ pc |-> "invoke", limit_arg |-> limit_arg, server |-> server, cap |-> cap,
      current |-> 0, total |-> Total(limit_arg), limit |-> PageLimit(Total(limit_arg)),
      offset |-> ZeroOffset,
      request |-> SearchPosts(ZeroOffset, PageLimit(Total(limit_arg))),
      raw |-> <<>>, messages |-> <<>>, at |-> 0, yielded |-> <<>>, err |-> "" ]

\* What the client answers an awaited call with: a value, or an error
RpcAnswers == {"ok", "RPCError"}

\* An error at an await leaves the generator.
SearchRaises(err) ==
    /\ posts' = [posts EXCEPT !.pc = "raised", !.err = err]
    /\ UNCHANGED <<heap, message_cache, stack, users, chats, topics, outcome, log, budget, bound>>

\* Line 68: await self.invoke(...) comes back with the server's page.
Invoke(answer) ==
    /\ posts.pc = "invoke"
    /\ IF answer = "ok"
       THEN /\ posts' = [posts EXCEPT
                  !.pc = "parse_messages",
                  !.raw = SearchPostsAnswer(posts.server, posts.cap,
                                            posts.request.offset, posts.request.limit)]
            /\ UNCHANGED <<heap, message_cache, stack, users, chats, topics, outcome, log, budget, bound>>
       ELSE SearchRaises(answer)

\* Lines 66-87: await utils.parse_messages(...) comes back with the messages;
\* an empty page ends the generator; else offset_date is taken from the last
\* one and self.resolve_peer(last.chat.id) is awaited.
ParseMessages(answer) ==
    /\ posts.pc = "parse_messages"
    /\ IF answer = "ok"
       THEN LET messages == posts.raw
            IN  /\ posts' =
                      IF messages = <<>>
                      THEN [posts EXCEPT !.pc = "done", !.messages = messages, !.at = 0]
                      ELSE [posts EXCEPT
                              !.pc = "resolve_peer", !.messages = messages, !.at = 0,
                              !.offset.offset_rate = NextOffset(messages[Len(messages)]).offset_rate]
                /\ UNCHANGED <<heap, message_cache, stack, users, chats, topics, outcome, log, budget, bound>>
       ELSE SearchRaises(answer)

\* Lines 87-91: await self.resolve_peer(...) comes back; offset_peer and
\* offset_id are assigned and the first message of the page is yielded.
ResolvePeer(answer) ==
    /\ posts.pc = "resolve_peer"
    /\ IF answer = "ok"
       THEN LET last == posts.messages[Len(posts.messages)]
            IN  /\ posts' = [posts EXCEPT
                      !.pc = "yield",
                      !.offset.offset_peer = NextOffset(last).offset_peer,
                      !.offset.offset_id = NextOffset(last).offset_id,
                      !.at = 1,
                      !.yielded = Append(@, posts.messages[1])]
                /\ UNCHANGED <<heap, message_cache, stack, users, chats, topics, outcome, log, budget, bound>>
       ELSE SearchRaises(answer)

\* Lines 90-96 and 65-75: the consumer asks for the next message; the one it
\* has is counted, and the generator ends, yields the next message of the
\* page, or sends the next request.
NextPost ==
    /\ posts.pc = "yield"
    /\ LET current == posts.current + 1
       IN  posts' =
             IF ~WideLess(Wide(current), posts.total) THEN
                 [posts EXCEPT !.current = current, !.pc = "done"]
             ELSE IF posts.at < Len(posts.messages) THEN
                 [posts EXCEPT !.current = current, !.at = @ + 1,
                               !.yielded = Append(@, posts.messages[posts.at + 1])]
             ELSE
                 [posts EXCEPT !.current = current, !.pc = "invoke",
                               !.request = SearchPosts(posts.offset, posts.limit)]
    /\ UNCHANGED <<heap, message_cache, stack, users, chats, topics, outcome, log, budget, bound>>

InitSearch ==
    /\ stack = [p \in Callers |-> <<>>]
    /\ users = [p \in Callers |-> {}]
    /\ chats = [p \in Callers |-> {}]
    /\ topics = [p \in Callers |-> NULL]
    /\ outcome = [p \in Callers |-> Idle]
    /\ log = [p \in Callers |-> <<>>]
    /\ heap = <<>>
    /\ message_cache = EmptyCache
    /\ budget = 0
    /\ bound = NoBound
    /\ \E limit_arg \in Limits, server \in ServerSizes, cap \in ServerCaps :
           posts = StartSearch(limit_arg, server, cap)

NextSearch ==
    \/ \E answer \in RpcAnswers : Invoke(answer)
    \/ \E answer \in RpcAnswers : ParseMessages(answer)
    \/ \E answer \in RpcAnswers : ResolvePeer(answer)
    \/ NextPost

SpecSearch == InitSearch /\ [][NextSearch]_vars

\* The client answers every awaited call and the consumer of the generator
\* keeps iterating: a step that can be taken is taken.
SpecSearchFair ==
    /\ SpecSearch
    /\ WF_vars(\E answer \in RpcAnswers : Invoke(answer))
    /\ WF_vars(\E answer \in RpcAnswers : ParseMessages(answer))
    /\ WF_vars(\E answer \in RpcAnswers : ResolvePeer(answer))
    /\ WF_vars(NextPost)

----------------------------------------------------------------------------
(* The bound methods of a Message (message.py, lines 1437-5130): each reads
   attributes of the message and forwards to a method of the client *)

\* enums.ChatType: BOT is the private chat with a bot.
ChatTypes == {"PRIVATE", "BOT", "GROUP", "SUPERGROUP", "CHANNEL"}

\* The attributes of a Message the bound methods read.
BoundFields ==
    { "id", "chat", "message_thread_id", "business_connection_id", "reply_markup",
      "service", "empty", "text", "entities", "web_page", "media", "caption",
      "caption_entities", "via_bot", "from_user", "has_media_spoiler",
      "show_caption_above_media", "photo", "audio", "document", "video", "animation",
      "voice", "sticker", "video_note", "contact", "location", "venue", "poll", "game" }

BoundMessage(kw) == [f \in BoundFields |-> IF f \in DOMAIN kw THEN kw[f] ELSE NULL]

\* The reply_* methods that take quote, and the client method each forwards to.
ReplyMethods ==
    { "text", "animation", "audio", "cached_media", "contact", "document", "game",
      "inline_bot_result", "location", "media_group", "photo", "poll", "sticker",
      "venue", "video", "video_note", "voice", "web_page" }

SendMethod(reply_method) == IF reply_method = "text" THEN "message" ELSE reply_method

\* Line 1545 (and its 17 copies): quote = self.chat.type != enums.ChatType.PRIVATE
QuoteDefault(chat_type) == chat_type # "PRIVATE"

\* Lines 1544-1548 (and their 17 copies): the reply_to_message_id forwarded
ReplyTo(self, quote, reply_to_message_id) ==
    LET q == IF quote = NULL THEN QuoteDefault(self.chat.type) ELSE quote[1]
    IN  IF reply_to_message_id = NULL /\ q THEN Some(self.id) ELSE reply_to_message_id

\* x if x is not None else d
IfNone(x, d) == IF x = NULL THEN d ELSE x

\* The keyword arguments of the self._client.send_* call of a reply_* method
\* (those every one of them passes).
ReplyRequest(self, method, text, quote, reply_to_message_id, message_thread_id) ==
    [ method |-> "send_" \o SendMethod(method),
      chat_id |-> self.chat.id,
      text |-> text,
      message_thread_id |-> IfNone(message_thread_id, self.message_thread_id),
      reply_to_message_id |-> ReplyTo(self, quote, reply_to_message_id) ]

\* What a client method answers: the value it returns, or an RPCError.
ClientAnswers == {"ok", "RPCError"}

\* A bound method ended: the calls it made, what it returned or raised.
Done(method, args, sent, result, raised) ==
    bound' = [bound EXCEPT !.pc = "done", !.method = method, !.args = args,
                           !.sent = sent, !.todo = <<>>, !.ends = "",
                           !.result = result, !.raised = raised]

\* What a bound method does: the client calls it awaits one after the other
\* (none, one, or the three of a web_app button) and how it ends once the
\* last is answered: "answer" returns what it answered, "url" the url
\* attribute of what it answered, "none" returns None; without a call,
\* "value" returns value, "none" returns None and "ValueError" raises.
Does(request, ends, value) == [request |-> request, ends |-> ends, value |-> value]
NoRequest == <<>>

\* The method runs up to its first await: it ends there when it awaits
\* nothing, and is otherwise suspended with its first call out.
Awaits(method, args, does) ==
    IF does.request = NoRequest
    THEN IF does.ends = "value" THEN Done(method, args, <<>>, does.value, "")
         ELSE Done(method, args, <<>>, NULL, IF does.ends = "none" THEN "" ELSE does.ends)
    ELSE bound' = [bound EXCEPT !.pc = "await", !.method = method, !.args = args,
                                !.sent = <<does.request[1]>>, !.todo = Tail(does.request),
                                !.ends = does.ends]

\* What the method returns once its last call has answered.
Returns(ends, request) ==
    IF ends = "answer" THEN Some([from |-> request.method])
    ELSE IF ends = "url" THEN Some([from |-> request.method, attribute |-> "url"])
    ELSE NULL

\* The call that is out is answered: an RPCError leaves the method, the calls
\* still to make unmade; otherwise the method makes its next call or returns.
ClientAnswered(answer) ==
    /\ bound.pc = "await"
    /\ IF answer # "ok" THEN Done(bound.method, bound.args, bound.sent, NULL, answer)
       ELSE IF bound.todo # <<>>
            THEN bound' = [bound EXCEPT !.sent = Append(@, Head(bound.todo)),
                                        !.todo = Tail(@)]
            ELSE Done(bound.method, bound.args, bound.sent,
                      Returns(bound.ends, bound.sent[Len(bound.sent)]), "")
    /\ UNCHANGED <<heap, message_cache, stack, users, chats, topics, outcome, log, budget, posts>>

OptBools == {NULL, Some(TRUE), Some(FALSE)}
OptMsgIds == {NULL, Some(0), Some(3)}

\* await message.reply_<method>(..., quote, reply_to_message_id, message_thread_id),
\* up to the await of its return await self._client.send_<method>(...)
Reply(method, quote, reply_to_message_id, message_thread_id) ==
    /\ bound.pc = "ready"
    /\ Awaits("reply_" \o method,
              [quote |-> quote, reply_to_message_id |-> reply_to_message_id],
              Does(<<ReplyRequest(bound.self, method, "text", quote, reply_to_message_id,
                                  message_thread_id)>>, "answer", NULL))
    /\ UNCHANGED <<heap, message_cache, stack, users, chats, topics, outcome, log, budget, posts>>

\* Lines 2108-2115: reply_chat_action takes no quote and names no message.
ChatActionRequest(self, action, business_connection_id) ==
    [ method |-> "send_chat_action", chat_id |-> self.chat.id, action |-> action,
      business_connection_id |-> IfNone(business_connection_id, self.business_connection_id) ]

\* await message.reply_chat_action(action, business_connection_id)
ReplyChatAction(action, business_connection_id) ==
    /\ bound.pc = "ready"
    /\ Awaits("reply_chat_action",
              [action |-> action, business_connection_id |-> business_connection_id],
              Does(<<ChatActionRequest(bound.self, action, business_connection_id)>>,
                   "answer", NULL))
    /\ UNCHANGED <<heap, message_cache, stack, users, chats, topics, outcome, log, budget, posts>>

\* types.InlineKeyboardButton: the attributes Message.click reads
InlineButtonFields ==
    { "text", "callback_data", "requires_password", "url", "web_app", "user_id",
      "switch_inline_query", "switch_inline_query_current_chat" }

InlineButton(kw) == [f \in InlineButtonFields |-> IF f \in DOMAIN kw THEN kw[f] ELSE NULL]

\* types.KeyboardButton of a ReplyKeyboardMarkup
KeyboardButton(text) == [text |-> Some(text)]

\* Python truthiness of an optional bool / an optional object
TruthyBool(v) == v # NULL /\ v[1]
TruthyObj(v) == v # NULL

\* list[i]: None stands for the IndexError
PyIndex(list, i) ==
    IF 0 <= i /\ i < Len(list) THEN Some(list[i + 1])
    ELSE IF i < 0 /\ -i <= Len(list) THEN Some(list[Len(list) + i + 1])
    ELSE NULL

\* [button for row in keyboard for button in row]
RECURSIVE Flat(_)
Flat(keyboard) == IF keyboard = <<>> THEN <<>> ELSE Head(keyboard) \o Flat(Tail(keyboard))

\* [button for button in buttons if label == button.text]
RECURSIVE Labelled(_, _)
Labelled(buttons, label) ==
    IF buttons = <<>> THEN <<>>
    ELSE (IF Head(buttons).text = Some(label) THEN <<Head(buttons)>> ELSE <<>>)
             \o Labelled(Tail(buttons), label)

\* Lines 5039-5066: the button clicked; None stands for the ValueError of a
\* button that does not exist or of invalid arguments.  x is an int or a str
\* (whose utf-16 round trip leaves well-formed text as it is).
PickButton(keyboard, x, y) ==
    IF x.type = "int" /\ y = NULL THEN PyIndex(Flat(keyboard), x.int)
    ELSE IF x.type = "int" /\ y # NULL THEN
        LET row == PyIndex(keyboard, y[1])
        IN  IF row = NULL THEN NULL ELSE PyIndex(row[1], x.int)
    ELSE IF x.type = "str" /\ y = NULL THEN PyIndex(Labelled(Flat(keyboard), x.str), 0)
    ELSE NULL

\* Lines 5094-5102: via_bot.id, else the id of a sender that is a bot, else None
BotPeerId(self) ==
    IF self.via_bot # NULL /\ TruthyInt(Some(self.via_bot[1].id)) THEN Some(self.via_bot[1].id)
    ELSE IF self.from_user # NULL /\ self.from_user[1].is_bot
                /\ TruthyInt(Some(self.from_user[1].id))
         THEN Some(self.from_user[1].id)
         ELSE NULL

\* Lines 5070-5075: request_callback_answer(chat_id, message_id, callback_data, timeout)
CallbackRequest(self, button, timeout) ==
    [ method |-> "request_callback_answer", chat_id |-> self.chat.id, message_id |-> self.id,
      callback_data |-> button.callback_data, timeout |-> timeout ]

\* Lines 5082-5088: the same with password=password
PasswordRequest(self, button, password, timeout) ==
    [ method |-> "request_callback_answer", chat_id |-> self.chat.id, message_id |-> self.id,
      callback_data |-> button.callback_data, password |-> password, timeout |-> timeout ]

\* await self._client.resolve_peer(peer_id), and the input peer it answers
ResolvePeerRequest(peer_id) == [method |-> "resolve_peer", peer_id |-> peer_id]
InputPeerOf(peer_id) == [input_peer |-> peer_id]

\* Lines 5108-5117: the two peers are resolved, the chat first, before the
\* RequestWebView that carries them is invoked.
WebViewRequests(self, bot_peer_id, web_app) ==
    << ResolvePeerRequest(self.chat.id),
       ResolvePeerRequest(bot_peer_id),
       [ method |-> "RequestWebView", peer |-> InputPeerOf(self.chat.id),
         bot |-> InputPeerOf(bot_peer_id), url |-> web_app ] >>

\* Lines 5068-5128: an inline button
ClickInline(self, button, password, timeout) ==
    IF TruthyStr(button.callback_data) THEN
        Does(<<CallbackRequest(self, button, timeout)>>, "answer", NULL)
    ELSE IF TruthyBool(button.requires_password) THEN
        IF password = NULL THEN Does(NoRequest, "ValueError", NULL)
        ELSE Does(<<PasswordRequest(self, button, password, timeout)>>, "answer", NULL)
    ELSE IF TruthyStr(button.url) THEN Does(NoRequest, "value", button.url)
    ELSE IF TruthyObj(button.web_app) THEN
        IF BotPeerId(self) = NULL THEN Does(NoRequest, "ValueError", NULL)
        ELSE Does(WebViewRequests(self, BotPeerId(self)[1], button.web_app[1]), "url", NULL)
    ELSE IF TruthyInt(button.user_id) THEN
        Does(<<[method |-> "get_chat", chat_id |-> button.user_id[1], force_full |-> FALSE]>>,
             "answer", NULL)
    ELSE IF TruthyStr(button.switch_inline_query) THEN
        Does(NoRequest, "value", button.switch_inline_query)
    ELSE IF TruthyStr(button.switch_inline_query_current_chat) THEN
        Does(NoRequest, "value", button.switch_inline_query_current_chat)
    ELSE Does(NoRequest, "ValueError", NULL)

\* Lines 5129-5130: await self.reply(text=button, quote=quote), and no return
\* (reply is reply_text, line 1576)
ClickNormal(self, button, quote) ==
    Does(<<ReplyRequest(self, "text", button, quote, NULL, NULL)>>, "none", NULL)

\* Lines 5030-5130
ClickDoes(self, x, y, quote, timeout, password) ==
    IF self.reply_markup = NULL
          \/ self.reply_markup[1].type \notin {"ReplyKeyboardMarkup", "InlineKeyboardMarkup"}
    THEN Does(NoRequest, "ValueError", NULL)
    ELSE LET is_inline == self.reply_markup[1].type = "InlineKeyboardMarkup"
             button == PickButton(self.reply_markup[1].keyboard, x, y)
         IN  IF button = NULL THEN Does(NoRequest, "ValueError", NULL)
             ELSE IF is_inline THEN ClickInline(self, button[1], password, timeout)
             ELSE ClickNormal(self, button[1], quote)

\* await message.click(x, y, quote, timeout, request_write_access, password),
\* up to its first await
Click(x, y, quote, password) ==
    /\ bound.pc = "ready"
    /\ Awaits("click", [x |-> x, y |-> y, quote |-> quote, password |-> password],
              ClickDoes(bound.self, x, y, quote, 10, password))
    /\ UNCHANGED <<heap, message_cache, stack, users, chats, topics, outcome, log, budget, posts>>

\* The `object` that stands for a reply_markup not passed (line 4575)
Unspecified == Some([type |-> "object"])

\* The media copy sends by file id, and those it sends by content: each is the
\* name of the attribute that holds the payload.
FileMedia == { "photo", "audio", "document", "video", "animation", "voice",
               "sticker", "video_note" }
ContentMedia == {"contact", "location", "venue", "poll", "game"}

\* Lines 4686, 4704: reply_markup=self.reply_markup if reply_markup is object else reply_markup
CopyMarkup(self, reply_markup) ==
    IF reply_markup = Unspecified THEN self.reply_markup ELSE reply_markup

\* Lines 4689-4705: the arguments send_cached_media is given in every case
SendMedia(self, chat_id, has_spoiler, show_caption_above_media, reply_markup) ==
    [ method |-> "send_cached_media", chat_id |-> chat_id,
      has_spoiler |-> IfNone(has_spoiler, self.has_media_spoiler),
      show_caption_above_media |-> IfNone(show_caption_above_media,
                                          self.show_caption_above_media),
      reply_markup |-> CopyMarkup(self, reply_markup) ]

\* f with the fields of g added (partial(...)(**more))
With(f, g) == [k \in DOMAIN f \cup DOMAIN g |-> IF k \in DOMAIN g THEN g[k] ELSE f[k]]

\* Lines 4707-4722: the file id of the first file attribute that is set, in
\* the order of the elif chain; None when none is.
FileOrder == <<"photo", "audio", "document", "video", "animation", "voice",
               "sticker", "video_note">>

FileId(self) ==
    LET set == { i \in DOMAIN FileOrder : TruthyObj(self[FileOrder[i]]) }
    IN  IF set = {} THEN NULL
        ELSE Some(self[FileOrder[CHOOSE i \in set : \A j \in set : i <= j]][1].file_id)

\* Lines 4723-4782: the send_* call of a message without a file
CopyContent(self, chat_id) ==
    IF TruthyObj(self.contact) THEN
        Does(<<[ method |-> "send_contact", chat_id |-> chat_id,
                 phone_number |-> self.contact[1].phone_number,
                 first_name |-> self.contact[1].first_name,
                 last_name |-> self.contact[1].last_name,
                 vcard |-> self.contact[1].vcard ]>>, "answer", NULL)
    ELSE IF TruthyObj(self.location) THEN
        Does(<<[ method |-> "send_location", chat_id |-> chat_id,
                 latitude |-> self.location[1].latitude,
                 longitude |-> self.location[1].longitude ]>>, "answer", NULL)
    ELSE IF TruthyObj(self.venue) THEN
        Does(<<[ method |-> "send_venue", chat_id |-> chat_id,
                 latitude |-> self.venue[1].location.latitude,
                 longitude |-> self.venue[1].location.longitude,
                 title |-> self.venue[1].title, address |-> self.venue[1].address,
                 foursquare_id |-> self.venue[1].foursquare_id,
                 foursquare_type |-> self.venue[1].foursquare_type ]>>, "answer", NULL)
    ELSE IF TruthyObj(self.poll) THEN
        Does(<<[ method |-> "send_poll", chat_id |-> chat_id,
                 question |-> self.poll[1].question,
                 options |-> [i \in DOMAIN self.poll[1].options |->
                                  self.poll[1].options[i].text] ]>>, "answer", NULL)
    ELSE IF TruthyObj(self.game) THEN
        Does(<<[ method |-> "send_game", chat_id |-> chat_id,
                 game_short_name |-> self.game[1].short_name ]>>, "answer", NULL)
    ELSE Does(NoRequest, "ValueError", NULL)

\* Lines 4784-4800: a sticker or a video note goes without caption; another
\* file with the caption passed, or without one with that of the message
\* (above is show_caption_above_media).
CopyFile(self, file_id, chat_id, caption, caption_entities, has_spoiler, above, reply_markup) ==
    LET send_media == SendMedia(self, chat_id, has_spoiler, above, reply_markup)
    IN  IF TruthyObj(self.sticker) \/ TruthyObj(self.video_note)
        THEN Does(<<With(send_media, [file_id |-> file_id])>>, "answer", NULL)
        ELSE Does(<<With(send_media,
                         [ file_id |-> file_id,
                           caption |-> IF caption = NULL
                                       THEN (IF TruthyStr(self.caption) THEN self.caption
                                             ELSE Some(""))
                                       ELSE caption,
                           caption_entities |-> IF caption = NULL THEN self.caption_entities
                                                ELSE caption_entities ])>>,
                  "answer", NULL)

\* Lines 4661-4802, with is_bot what storage.is_bot() answered (asked only
\* of a message that is no service message and has a game)
CopyDoes(self, is_bot, chat_id, caption, caption_entities, reply_markup) ==
    IF TruthyObj(self.service) THEN Does(NoRequest, "none", NULL)
    ELSE IF TruthyObj(self.game) /\ ~is_bot THEN Does(NoRequest, "none", NULL)
    ELSE IF TruthyBool(self.empty) THEN Does(NoRequest, "none", NULL)
    ELSE IF TruthyStr(self.text) THEN
        Does(<<[ method |-> "send_message", chat_id |-> chat_id, text |-> self.text,
                 entities |-> self.entities,
                 disable_web_page_preview |-> ~TruthyObj(self.web_page),
                 reply_markup |-> CopyMarkup(self, reply_markup) ]>>, "answer", NULL)
    ELSE IF TruthyObj(self.media) THEN
        IF FileId(self) # NULL
        THEN CopyFile(self, FileId(self)[1], chat_id, caption, caption_entities, NULL, NULL,
                      reply_markup)
        ELSE CopyContent(self, chat_id)
    ELSE Does(NoRequest, "ValueError", NULL)

\* Line 4664: whether copy asks storage.is_bot()
AsksIsBot(self) == ~TruthyObj(self.service) /\ TruthyObj(self.game)

\* await message.copy(chat_id, caption, ..., reply_markup), up to its first
\* await: that of storage.is_bot() for a game, of the send call otherwise
Copy(caption, reply_markup) ==
    /\ bound.pc = "ready"
    /\ LET args == [caption |-> caption, reply_markup |-> reply_markup]
       IN  IF AsksIsBot(bound.self)
           THEN bound' = [bound EXCEPT !.pc = "is_bot", !.method = "copy", !.args = args]
           ELSE Awaits("copy", args, CopyDoes(bound.self, FALSE, 42, caption, NULL, reply_markup))
    /\ UNCHANGED <<heap, message_cache, stack, users, chats, topics, outcome, log, budget, posts>>

\* storage.is_bot() answers, and copy runs on to its send call or its end
IsBot(is_bot) ==
    /\ bound.pc = "is_bot"
    /\ Awaits("copy", bound.args,
              CopyDoes(bound.self, is_bot, 42, bound.args.caption, NULL,
                       bound.args.reply_markup))
    /\ UNCHANGED <<heap, message_cache, stack, users, chats, topics, outcome, log, budget, posts>>

\* The messages the bound methods are called on
InlineButtons ==
    { InlineButton([text |-> Some("A"), callback_data |-> Some("data")]),
      InlineButton([text |-> Some("A"), requires_password |-> Some(TRUE)]),
      InlineButton([text |-> Some("A"), callback_data |-> Some("data"),
                    requires_password |-> Some(TRUE)]),
      InlineButton([text |-> Some("A"), callback_data |-> Some(""),
                    requires_password |-> Some(FALSE), url |-> Some("https://t.me")]),
      InlineButton([text |-> Some("A"), web_app |-> Some("https://app")]),
      InlineButton([text |-> Some("A"), user_id |-> Some(1)]),
      InlineButton([text |-> Some("A"), switch_inline_query |-> Some("q")]),
      InlineButton([text |-> Some("A"), switch_inline_query |-> Some(""),
                    switch_inline_query_current_chat |-> Some("q")]),
      InlineButton([text |-> Some("A")]) }

Markup(type, keyboard) == [type |-> type, keyboard |-> keyboard]

ClickMarkups ==
    { Some(Markup("InlineKeyboardMarkup", <<<<b>>>>)) : b \in InlineButtons }
    \cup { Some(Markup("InlineKeyboardMarkup",
                       << <<InlineButton([text |-> Some("B"), url |-> Some("https://t.me")]),
                            InlineButton([text |-> Some("A"), requires_password |-> Some(TRUE)])>>,
                          <<InlineButton([text |-> Some("C"), callback_data |-> Some("data"),
                                          requires_password |-> Some(TRUE)])>> >>)),
           Some(Markup("ReplyKeyboardMarkup", <<<<KeyboardButton("A")>>>>)),
           Some(Markup("ReplyKeyboardMarkup",
                       << <<KeyboardButton("B"), KeyboardButton("A")>>, <<KeyboardButton("C")>> >>)),
           Some(Markup("ForceReply", <<>>)) }

Senders ==
    { [via_bot |-> NULL, from_user |-> NULL],
      [via_bot |-> Some([id |-> 2]), from_user |-> Some([id |-> 1, is_bot |-> FALSE])],
      [via_bot |-> NULL, from_user |-> Some([id |-> 2, is_bot |-> TRUE])] }

BoundChat(type) == [id |-> IF type \in {"PRIVATE", "BOT"} THEN 1 ELSE -5, type |-> type]

TextSelves ==
    { BoundMessage([ id |-> 7, chat |-> BoundChat(t), text |-> Some("hi"),
                     message_thread_id |-> thread ]) :
        t \in ChatTypes, thread \in {NULL, Some(9)} }

KeyboardSelves ==
    { BoundMessage([ id |-> 7, chat |-> BoundChat(t), text |-> Some("hi"), reply_markup |-> k,
                     via_bot |-> sender.via_bot, from_user |-> sender.from_user ]) :
        t \in {"PRIVATE", "GROUP"}, k \in ClickMarkups, sender \in Senders }

\* The payload a message of each kind holds in the attribute of that name
Payload(kind) ==
    IF kind \in FileMedia THEN [file_id |-> "file_" \o kind]
    ELSE IF kind = "contact" THEN
        [phone_number |-> "555", first_name |-> "Ann", last_name |-> NULL, vcard |-> NULL]
    ELSE IF kind = "location" THEN [latitude |-> 1, longitude |-> 2]
    ELSE IF kind = "venue" THEN
        [ location |-> [latitude |-> 1, longitude |-> 2], title |-> "Cafe", address |-> "Road",
          foursquare_id |-> NULL, foursquare_type |-> NULL ]
    ELSE IF kind = "poll" THEN [question |-> "Q", options |-> <<[text |-> "a"], [text |-> "b"]>>]
    ELSE [short_name |-> "chess"]

\* A message of the kind: media names it and the attribute holds the payload.
Holding(kind) == [f \in {"media", kind} |-> IF f = "media" THEN Some(kind) ELSE Some(Payload(kind))]

\* What the messages copied hold: the last three sets are messages whose
\* media has no payload, whose payload comes with a caption or a spoiler, and
\* that hold two payloads at once.
CopyContents ==
    { [service |-> Some("PINNED_MESSAGE")],
      [service |-> Some("GAME_HIGH_SCORE"), game |-> Some(Payload("game"))],
      [empty |-> Some(TRUE)],
      [text |-> Some("hi")], [text |-> Some("hi"), web_page |-> Some("page"), media |-> Some("web_page")],
      [media |-> Some("dice")], [caption |-> Some("cap")] }
    \cup { Holding(k) : k \in FileMedia \cup ContentMedia }
    \cup { [media |-> Some(k)] : k \in FileMedia \cup ContentMedia }
    \cup { With(Holding(k), [caption |-> Some("cap"), has_media_spoiler |-> Some(TRUE)]) :
              k \in {"photo", "sticker", "contact"} }
    \cup { With(Holding("photo"), [sticker |-> Some(Payload("sticker"))]),
           With(Holding("game"), [text |-> Some("hi")]) }

ContentSelves ==
    { With(BoundMessage([id |-> 7, chat |-> BoundChat("GROUP"), reply_markup |-> k]), content) :
        k \in { NULL, Some(Markup("InlineKeyboardMarkup",
                                  <<<<InlineButton([text |-> Some("A"), url |-> Some("https://t.me")])>>>>)) },
        content \in CopyContents }

NewMarkup == Some(Markup("ReplyKeyboardMarkup", <<<<KeyboardButton("N")>>>>))

InitBound ==
    /\ stack = [p \in Callers |-> <<>>]
    /\ users = [p \in Callers |-> {}]
    /\ chats = [p \in Callers |-> {}]
    /\ topics = [p \in Callers |-> NULL]
    /\ outcome = [p \in Callers |-> Idle]
    /\ log = [p \in Callers |-> <<>>]
    /\ heap = <<>>
    /\ message_cache = EmptyCache
    /\ budget = 0
    /\ posts = NoSearch
    /\ \E self \in TextSelves \cup KeyboardSelves \cup ContentSelves :
           bound = [ pc |-> "ready", self |-> self, method |-> "", args |-> <<>>,
                     sent |-> <<>>, todo |-> <<>>, ends |-> "", result |-> NULL,
                     raised |-> "" ]

Xs == { [type |-> "int", int |-> i] : i \in {-1, 0, 1, 5} }
          \cup { [type |-> "str", str |-> l] : l \in {"A", "Z"} }

ChatActions == {"TYPING", "CANCEL"}

NextBound ==
    \/ \E method \in ReplyMethods, quote \in OptBools, reply_to_message_id \in OptMsgIds :
           Reply(method, quote, reply_to_message_id, NULL)
    \/ \E action \in ChatActions, business_connection_id \in {NULL, Some("biz")} :
           ReplyChatAction(action, business_connection_id)
    \/ \E x \in Xs, y \in {NULL, Some(0), Some(1)}, quote \in OptBools,
          password \in {NULL, Some("pw")} :
           Click(x, y, quote, password)
    \/ \E caption \in {NULL, Some("new")}, reply_markup \in {Unspecified, NULL, NewMarkup} :
           Copy(caption, reply_markup)
    \/ \E is_bot \in BOOLEAN : IsBot(is_bot)
    \/ \E answer \in ClientAnswers : ClientAnswered(answer)

SpecBound == InitBound /\ [][NextBound]_vars

----------------------------------------------------------------------------
(* What a call was given and what it returned *)

Called(p) == outcome[p].a # NULL
ArgsOf(p) == outcome[p].a[1]
Returned(p) == outcome[p].status = "returned"
Raised(p) == outcome[p].status = "raised"
Result(p) == heap[outcome[p].ref]

IsService(message) == message.type = "MessageService"
IsContent(message) == message.type = "Message"
MediaType(message) == IF message.media = NULL THEN "" ELSE message.media[1].type
ActionTag(message) == IF message.action = NULL THEN "" ELSE message.action[1].tag

\* The attributes of m that are set
NonNull(m, fields) == { f \in fields : m[f] # NULL }

----------------------------------------------------------------------------
(* C1: the depth bound *)

\* The lookups that decode a further message, and the recursive decode itself.
RecursiveKinds == {"pinned", "game_reply", "decode", "reply_fetch"}

\* Those a frame at depth d of the call of p has issued, and the replies
\* argument that frame runs with.
Issued(p, d) == SelectSeq(log[p], LAMBDA e : e.depth = d /\ e.kind \in RecursiveKinds)
RepliesAt(p, d) == IF d = 1 THEN ArgsOf(p).replies ELSE 0

\* C1, as stated: with replies = 0 a call issues no recursive decode and no
\* message fetch; with replies = N > 0 it issues at most one, with depth N - 1.
C1_DepthBoundAsStated ==
    \A p \in Callers : Called(p) =>
        LET N == ArgsOf(p).replies
            rec == Issued(p, 1)
        IN  /\ N = 0 => rec = <<>>
            /\ N > 0 => Len(rec) <= 1 /\ \A i \in DOMAIN rec : rec[i].arg = N - 1

\* C1, as the code has it: every frame issues at most one recursive decode or
\* message fetch.  With replies = 0 it can only be the pinned-message lookup of
\* a pin action, made with replies = 0.  With replies = N > 0 the fetch after a
\* cache miss is made with N - 1; the decode of a record handed over, the
\* pinned-message lookup and the game-score lookup are made with 0.
C1_DepthBound ==
    \A p \in Callers : Called(p) =>
        \A d \in 1..2 :
            LET N == RepliesAt(p, d)
                rec == Issued(p, d)
            IN  /\ Len(rec) <= 1
                /\ \A i \in DOMAIN rec :
                    /\ rec[i].kind = "reply_fetch" => N > 0 /\ rec[i].arg = N - 1
                    /\ rec[i].kind \in {"decode", "game_reply"} => N > 0 /\ rec[i].arg = 0
                    /\ rec[i].kind = "pinned" => rec[i].arg = 0

\* A call with replies > 1 has fetched the replied message after a cache miss.
C1_Witness ==
    \E p \in Callers :
        /\ Returned(p)
        /\ ArgsOf(p).replies > 1
        /\ \E i \in DOMAIN log[p] :
            log[p][i].kind = "reply_fetch" /\ log[p][i].arg = ArgsOf(p).replies - 1

----------------------------------------------------------------------------
(* C2: the replied message carries no reply of its own *)

\* C2: in every returned message, the message in reply_to_message has its own
\* reply_to_message null.
C2_RepliedMessageHasNoReply ==
    \A p \in Callers : Returned(p) /\ Result(p).reply_to_message # NULL =>
        heap[Result(p).reply_to_message[1]].reply_to_message = NULL

----------------------------------------------------------------------------
(* C3: the cache write *)

\* C3: after a call returns for a service record or a content record without
\* a poll, the cache holds the returned object under (chat.id, id), so with
\* every attribute assigned to it up to the return; after it returns for a
\* content record with a poll or for an empty record, the entry under that key
\* is what it was when the call began.
C3_CacheWrite ==
    \A p \in Callers : Returned(p) =>
        LET a == ArgsOf(p)
            m == Result(p)
            key == OwnKey(a)
        IN  IF IsService(a.message) \/ (IsContent(a.message) /\ MediaType(a.message) # "MessageMediaPoll")
            THEN /\ key = <<m.chat[1].id, m.id[1]>>
                 /\ message_cache[key] = Some(outcome[p].ref)
                 /\ heap[message_cache[key][1]].message_thread_id = m.message_thread_id
                 /\ heap[message_cache[key][1]].topic_message = m.topic_message
            ELSE message_cache[key] = outcome[p].before

\* A service message in a forum topic is cached with its thread id.
C3_Witness ==
    \E p \in Callers :
        /\ Returned(p)
        /\ IsService(ArgsOf(p).message)
        /\ message_cache[OwnKey(ArgsOf(p))] = Some(outcome[p].ref)
        /\ Result(p).topic_message = Some(TRUE)
        /\ Result(p).message_thread_id = Some(3)

----------------------------------------------------------------------------
(* C4: the text/caption split *)

Body(message) == StrOrNone(message.message, ParseEntities(message.entities))
BodyEntities(message) == ListOrNone(ParseEntities(message.entities))

InCaption(m, message) ==
    /\ m.text = NULL /\ m.entities = NULL
    /\ m.caption = Body(message) /\ m.caption_entities = BodyEntities(message)

InText(m, message) ==
    /\ m.caption = NULL /\ m.caption_entities = NULL
    /\ m.text = Body(message) /\ m.entities = BodyEntities(message)

\* C4, as stated: media present and no web page puts the body in caption;
\* media absent or a web page puts it in text.
C4_SplitAsStated ==
    \A p \in Callers : Returned(p) /\ IsContent(ArgsOf(p).message) =>
        LET message == ArgsOf(p).message
        IN  IF message.media # NULL /\ MediaType(message) # "MessageMediaWebPage"
            THEN InCaption(Result(p), message)
            ELSE InText(Result(p), message)

\* C4, as the code has it: media of a kind the decoder knows, other than a web
\* page, puts the body in caption (a document that is no Document included);
\* media absent, of a kind the decoder does not know, or a web page (a WebPage
\* or not) puts it in text.
C4_TextCaptionSplit ==
    \A p \in Callers : Returned(p) /\ IsContent(ArgsOf(p).message) =>
        LET message == ArgsOf(p).message
        IN  IF MediaType(message) \in RecognizedMedia \ {"MessageMediaWebPage"}
            THEN InCaption(Result(p), message)
            ELSE InText(Result(p), message)

\* A message with media of an unknown kind came back with its body in text.
C4_Witness ==
    \E p \in Callers :
        /\ Returned(p)
        /\ MediaType(ArgsOf(p).message) = "MessageMediaUnsupported"
        /\ Result(p).text # NULL
        /\ Result(p).caption = NULL

----------------------------------------------------------------------------
(* C5: one service payload per service tag *)

\* C5: a returned service message has a service tag exactly when exactly one
\* service payload attribute is set (the text of a custom action counts as
\* its payload); none has a payload attribute set while service is null.
C5_ServicePayloadExclusive ==
    \A p \in Callers : Returned(p) /\ IsService(ArgsOf(p).message) =>
        LET m == Result(p)
        IN  m.service # NULL <=> Cardinality(NonNull(m, ServicePayloadFields \cup {"text"})) = 1

----------------------------------------------------------------------------
(* C6: one media payload per media tag *)

\* C6: in a returned content message with a media tag exactly one media
\* payload attribute is set.
C6_MediaPayloadExclusive ==
    \A p \in Callers : Returned(p) /\ IsContent(ArgsOf(p).message) /\ Result(p).media # NULL =>
        Cardinality(NonNull(Result(p), MediaPayloadFields)) = 1

----------------------------------------------------------------------------
(* C7: a failed lookup of the pinned message *)

SwallowedByPin == {"MessageIdsEmpty", "ChannelPrivate"}

\* The pinned-message lookup of the outermost frame failed with a swallowed error.
PinLookupFailed(p) ==
    \E i \in DOMAIN log[p] :
        /\ log[p][i].depth = 1
        /\ log[p][i].kind = "pinned_answer"
        /\ log[p][i].answer.kind \in SwallowedByPin

\* C7: no message has service = PINNED_MESSAGE without a pinned_message; a call
\* whose pinned-message lookup failed with MessageIdsEmpty or ChannelPrivate
\* returns the message, pinned_message null and service as the dispatch on the
\* action left it.
C7_PinFailureAtomic ==
    /\ \A i \in DOMAIN heap :
        heap[i].service = Some("PINNED_MESSAGE") => heap[i].pinned_message # NULL
    /\ \A p \in Callers : Called(p) /\ stack[p] = <<>> /\ PinLookupFailed(p) =>
        /\ Returned(p)
        /\ Result(p).pinned_message = NULL
        /\ Result(p).service = ServiceDispatch(ArgsOf(p).message).service

\* A pin action came back after its lookup failed.
C7_Witness ==
    \E p \in Callers :
        /\ Returned(p)
        /\ ActionTag(ArgsOf(p).message) = "MessageActionPinMessage"
        /\ PinLookupFailed(p)
        /\ Result(p).pinned_message = NULL

----------------------------------------------------------------------------
(* C8: unresolved cross-references *)

\* C8: no call fails because a user or chat it refers to is missing from the
\* tables; a call fails only with the error of a lookup that the decoder
\* does not catch.
C8_NeverFailsWholesale ==
    \A p \in Callers : Raised(p) => outcome[p].err # "KeyError"

----------------------------------------------------------------------------
(* C9: unknown variants *)

UnknownAction(message) == IsService(message) /\ ActionTag(message) = "MessageActionHistoryClear"

UnknownMedia(message) ==
    /\ IsContent(message)
    /\ \/ MediaType(message) = "MessageMediaUnsupported"
       \/ MediaType(message) = "MessageMediaDocument" /\ message.media[1].document # "Document"
       \/ MediaType(message) = "MessageMediaWebPage" /\ message.media[1].webpage # "WebPage"

UnknownMarkup(message) == IsContent(message) /\ message.reply_markup = Some("ReplyKeyboardUnknown")

\* A record that refers to nothing the decoder would have to look up.
RefersToNothing(a) ==
    /\ a.message.fwd_from = NULL
    /\ a.message.reply_to = NULL
    /\ ~IsPrivate(a.message)
    /\ ~a.forum

\* C9: a record with an unknown action, an unknown media kind, a document or
\* web page that is not genuine, or an unknown reply markup is returned, not
\* raised on, and comes back with service, media or reply_markup null.
C9_UnknownVariantsDegrade ==
    \A p \in Callers : Called(p) =>
        LET a == ArgsOf(p)
            message == a.message
        IN  /\ (UnknownAction(message) \/ UnknownMedia(message) \/ UnknownMarkup(message))
                    /\ RefersToNothing(a) => ~Raised(p)
            /\ Returned(p) =>
                /\ UnknownAction(message) => Result(p).service = NULL
                /\ UnknownMedia(message) => Result(p).media = NULL
                /\ UnknownMarkup(message) => Result(p).reply_markup = NULL

\* A message with an unknown reply markup came back without one.
C9_Witness ==
    \E p \in Callers :
        /\ Returned(p)
        /\ UnknownMarkup(ArgsOf(p).message)
        /\ Result(p).reply_markup = NULL

----------------------------------------------------------------------------
(* C10: the empty record *)

\* C10, as stated: an empty record comes back with empty = true, its id, and
\* every other attribute null (raw, the record itself, aside).
C10_EmptyAsStated ==
    \A p \in Callers : Returned(p) /\ ArgsOf(p).message.type = "MessageEmpty" =>
        /\ Result(p).empty = Some(TRUE)
        /\ Result(p).id = Some(ArgsOf(p).message.id)
        /\ NonNull(Result(p), MessageFields \ {"id", "empty", "raw"}) = {}

\* C10, as the code has it: an empty record comes back with empty = true, its
\* id, business_connection_id as it was passed, raw the record itself, and
\* every other attribute null.
C10_EmptyRecord ==
    \A p \in Callers : Returned(p) /\ ArgsOf(p).message.type = "MessageEmpty" =>
        /\ Result(p).empty = Some(TRUE)
        /\ Result(p).id = Some(ArgsOf(p).message.id)
        /\ Result(p).business_connection_id = ArgsOf(p).business_connection_id
        /\ Result(p).raw = Some(ArgsOf(p).message)
        /\ NonNull(Result(p), MessageFields \ {"id", "empty", "raw", "business_connection_id"}) = {}

\* An empty record came back carrying the business connection it was passed.
C10_Witness ==
    \E p \in Callers :
        /\ Returned(p)
        /\ ArgsOf(p).message.type = "MessageEmpty"
        /\ ArgsOf(p).business_connection_id # NULL
        /\ Result(p).business_connection_id = ArgsOf(p).business_connection_id

----------------------------------------------------------------------------
(* C11: the thread id *)

NonZero(v) == v # NULL /\ v # Some(0)

\* top_id if it is not 0, else the direct reply id if it is not 0, else 1
ExpectedThread(h) ==
    IF NonZero(h.reply_to_top_id) THEN h.reply_to_top_id[1]
    ELSE IF NonZero(h.reply_to_msg_id) THEN h.reply_to_msg_id[1]
    ELSE 1

InForumTopic(message) ==
    /\ message.reply_to # NULL
    /\ message.reply_to[1].type = "MessageReplyHeader"
    /\ message.reply_to[1].forum_topic

\* C11: a service or content record whose reply header has forum_topic set
\* comes back with topic_message = true and message_thread_id = top_id if that
\* is not 0, else the direct reply id if that is not 0, else 1; one formula
\* for both branches.
C11_ThreadId ==
    \A p \in Callers : Returned(p) /\ InForumTopic(ArgsOf(p).message) =>
        /\ Result(p).topic_message = Some(TRUE)
        /\ Result(p).message_thread_id = Some(ExpectedThread(ArgsOf(p).message.reply_to[1]))

\* A service message without a top id came back in the thread of its direct reply id.
C11_Witness ==
    \E p \in Callers :
        /\ Returned(p)
        /\ IsService(ArgsOf(p).message)
        /\ InForumTopic(ArgsOf(p).message)
        /\ ~NonZero(ArgsOf(p).message.reply_to[1].reply_to_top_id)
        /\ NonZero(ArgsOf(p).message.reply_to[1].reply_to_msg_id)
        /\ Result(p).message_thread_id = ArgsOf(p).message.reply_to[1].reply_to_msg_id

----------------------------------------------------------------------------
(* C12: the users lookup *)

\* The users.GetUsers requests the outermost frame has issued
UsersLookups(p) == SelectSeq(log[p], LAMBDA e : e.depth = 1 /\ e.kind = "get_users")

\* The peers it has asked client.resolve_peer for, in order
PeersResolved(p) ==
    LET asked == SelectSeq(log[p], LAMBDA e : e.depth = 1 /\ e.kind = "resolve_peer")
    IN  [i \in DOMAIN asked |-> asked[i].arg]

\* The answers of the awaited calls of the users lookup
UsersAnswerKinds == {"resolve_peer_answer", "get_users_answer"}

\* One of the two peers could not be resolved
ResolveFailed(p) ==
    \E i \in DOMAIN log[p] :
        /\ log[p][i].depth = 1 /\ log[p][i].kind = "resolve_peer_answer"
        /\ log[p][i].answer.kind # "resolved"

\* A private exchange one of whose two users the table passed in does not hold
PrivateUnresolved(a) ==
    /\ a.message.type # "MessageEmpty"
    /\ IsPrivate(a.message)
    /\ \E peer \in {a.message.from_id, a.message.peer_id} : peer[1].id \notin a.users

LastLogged(p) == log[p][Len(log[p])]

\* A call that has ended, either way
Ended(p) == Called(p) /\ stack[p] = <<>>

\* C12, as stated: the users lookup is issued only for a service record of a
\* private exchange with the sender or the recipient missing, and then once.
C12_LookupAsStated ==
    \A p \in Callers : Called(p) =>
        /\ Len(UsersLookups(p)) <= 1
        /\ UsersLookups(p) # <<>> => IsService(ArgsOf(p).message) /\ PrivateUnresolved(ArgsOf(p))

\* C12, as the code has it: the users lookup (the sender resolved, then the
\* recipient, then one users.GetUsers request) is made exactly once by a call
\* that decodes a service or a content record of a private exchange with the
\* sender or the recipient missing from the users table, and by no other call;
\* the request is issued once both peers are resolved and not otherwise; when
\* one of the three fails with PeerIdInvalid the call goes on, and the call is
\* left only by a failure of another kind.
C12_UsersLookup ==
    \A p \in Callers : Called(p) =>
        LET a == ArgsOf(p)
            sender == a.message.from_id[1].id
            recipient == a.message.peer_id[1].id
        IN  /\ Len(UsersLookups(p)) <= 1
            /\ PeersResolved(p) # <<>> => PrivateUnresolved(a)
            /\ PeersResolved(p) # <<>> => PeersResolved(p) \in {<<sender>>, <<sender, recipient>>}
            /\ UsersLookups(p) # <<>> => PeersResolved(p) = <<sender, recipient>> /\ ~ResolveFailed(p)
            /\ Ended(p) /\ PrivateUnresolved(a) =>
                    /\ PeersResolved(p) # <<>>
                    /\ Len(UsersLookups(p)) = 1 \/ ResolveFailed(p)
            /\ Raised(p) /\ log[p] # <<>> /\ LastLogged(p).kind \in UsersAnswerKinds =>
                    \/ LastLogged(p).answer.kind = "Other"
                    \/ LastLogged(p).answer.kind # "Other" /\ outcome[p].err = "KeyError"

\* A content record of a private exchange came back after the lookup failed
\* with PeerIdInvalid.
C12_Witness ==
    \E p \in Callers :
        /\ Returned(p)
        /\ IsContent(ArgsOf(p).message)
        /\ PrivateUnresolved(ArgsOf(p))
        /\ \E i \in DOMAIN log[p] :
            log[p][i].kind = "get_users_answer" /\ log[p][i].answer.kind = "PeerIdInvalid"

----------------------------------------------------------------------------
(* C13: the failures of the lookups *)

\* The answers of the pinned-message, game-score, reply-target, story and
\* topic lookups
LookupAnswerKinds ==
    { "pinned_answer", "game_reply_answer", "reply_fetch_answer", "story_answer", "topic_answer" }

NotFoundOrInaccessible == {"MessageIdsEmpty", "ChannelPrivate"}

\* C13: when one of these lookups fails with a not-found or a
\* channel-inaccessible error the call is not left by it, and when it fails with
\* an error of another kind that error leaves the call.
C13_ErrorPropagation ==
    \A p \in Callers : Called(p) /\ log[p] # <<>> /\ LastLogged(p).kind \in LookupAnswerKinds =>
        /\ LastLogged(p).answer.kind \in NotFoundOrInaccessible => ~Raised(p)
        /\ LastLogged(p).answer.kind = "Other" => Raised(p) /\ outcome[p].err = "Other"

----------------------------------------------------------------------------
(* C15: text and caption, service and media, and the entity lists *)

\* C15: in every returned message text and caption are not both non-null,
\* service and media are not both non-null, entities is non-null only if text
\* is, and caption_entities is non-null only if caption is.
C15_EntityPairing ==
    \A p \in Callers : Returned(p) =>
        LET m == Result(p)
        IN  /\ ~(m.text # NULL /\ m.caption # NULL)
            /\ ~(m.service # NULL /\ m.media # NULL)
            /\ m.entities # NULL => m.text # NULL
            /\ m.caption_entities # NULL => m.caption # NULL

----------------------------------------------------------------------------
(* C16: the limit of search_posts *)

\* What the generator is to yield: the first |limit| posts of the server's
\* order, all of them when there are fewer or when limit is 0.
Wanted(limit_arg, server) ==
    PostsFromTo(1, IF limit_arg = 0 THEN server ELSE Min(Abs(limit_arg), server))

IsPrefix(s, t) == Len(s) <= Len(t) /\ s = SubSeq(t, 1, Len(s))

\* C16: the messages yielded so far are the first ones of the server's order,
\* never more than |limit| of them for a non-zero limit; when the generator
\* returns it has yielded exactly |limit| if the server has that many, and
\* every post of the server if it has fewer or if limit is 0.
C16_SearchLimit ==
    posts.pc # "none" =>
        /\ IsPrefix(posts.yielded, Wanted(posts.limit_arg, posts.server))
        /\ posts.pc = "done" => posts.yielded = Wanted(posts.limit_arg, posts.server)

\* A search with a negative limit above the page size ended after a second
\* page cut short by the limit.
C16_Witness ==
    /\ posts.pc = "done"
    /\ posts.limit_arg = -(PageSize + 1)
    /\ Len(posts.yielded) = PageSize + 1
    /\ posts.server > PageSize + 1
    /\ posts.at < Len(posts.messages)

----------------------------------------------------------------------------
(* C17..C20: the bound methods *)

Ran(method) == bound.pc = "done" /\ bound.method = method
RanReply == bound.pc = "done" /\ \E m \in ReplyMethods : bound.method = "reply_" \o m

\* Private chats: with a user or with a bot.
PrivateChatTypes == {"PRIVATE", "BOT"}

\* C17: a reply_* method forwards a reply_to_message_id that was passed as it
\* is; given none, it forwards this message's id when quote is true and None
\* when quote is false, a quote not given counting as true in group chats and
\* as false in private chats, those with a bot included.
C17_ReplyQuoteDefault ==
    RanReply =>
        LET self == bound.self
            quote == IF bound.args.quote # NULL THEN bound.args.quote[1]
                     ELSE self.chat.type \notin PrivateChatTypes
        IN  /\ Len(bound.sent) = 1
            /\ bound.sent[1].reply_to_message_id =
                   IF bound.args.reply_to_message_id # NULL THEN bound.args.reply_to_message_id
                   ELSE IF quote THEN Some(self.id) ELSE NULL

\* The button a click that ended was aimed at (None when there is none).
Clicked ==
    IF bound.self.reply_markup = NULL \/ bound.self.reply_markup[1].keyboard = <<>> THEN NULL
    ELSE PickButton(bound.self.reply_markup[1].keyboard, bound.args.x, bound.args.y)

ClickedOn(type) ==
    /\ Ran("click")
    /\ bound.self.reply_markup # NULL /\ bound.self.reply_markup[1].type = type
    /\ Clicked # NULL

\* C18: a click on a button of a normal keyboard sends the button as a reply
\* and, when the send succeeds, returns the message Message.reply() returned.
C18_ClickReturnsReply ==
    ClickedOn("ReplyKeyboardMarkup") =>
        /\ Len(bound.sent) = 1
        /\ bound.sent[1].method = "send_message"
        /\ bound.sent[1].text = Clicked[1]
        /\ bound.raised = "" => bound.result = Some([from |-> "send_message"])

\* C19: a click on an inline button with requires_password raises ValueError
\* and makes no request when password is None, and otherwise every callback
\* request it makes carries the password, with or without callback_data.
C19_ClickPassword ==
    ClickedOn("InlineKeyboardMarkup") /\ TruthyBool(Clicked[1].requires_password) =>
        IF bound.args.password = NULL
        THEN bound.raised = "ValueError" /\ bound.sent = <<>>
        ELSE \A i \in 1..Len(bound.sent) :
                 bound.sent[i].method = "request_callback_answer" =>
                     /\ "password" \in DOMAIN bound.sent[i]
                     /\ bound.sent[i].password = bound.args.password

\* The reply markup a send call carries: None when it passes none.
Carried(request) == IF "reply_markup" \in DOMAIN request THEN request.reply_markup ELSE NULL

\* C20: whatever kind of message copy sends, the send call carries the
\* original message's reply_markup when reply_markup is not specified, and no
\* reply markup when None is passed.
C20_CopyReplyMarkup ==
    Ran("copy") /\ bound.sent # <<>> =>
        /\ bound.args.reply_markup = Unspecified =>
               Carried(bound.sent[1]) = bound.self.reply_markup
        /\ bound.args.reply_markup = NULL => Carried(bound.sent[1]) = NULL

----------------------------------------------------------------------------
(* C21: the reply target, through the cache *)

\* A call that is to resolve its reply target through the cache: a content
\* record with a message-reply header, replies > 0, no record handed over.
ResolvesThroughCache(a) ==
    /\ IsContent(a.message)
    /\ a.replies > 0
    /\ a.raw_reply_to_message = NULL
    /\ a.message.reply_to # NULL
    /\ a.message.reply_to[1].type = "MessageReplyHeader"

\* What the cache held under (chat_id, id) when the call of p began.
CachedBefore(p, chat_id, id) ==
    IF id = NULL \/ <<chat_id, id[1]>> \notin DOMAIN message_cache THEN NULL
    ELSE IF <<chat_id, id[1]>> = OwnKey(ArgsOf(p)) THEN outcome[p].before
    ELSE message_cache[<<chat_id, id[1]>>]

ReplyFetches(p) == SelectSeq(log[p], LAMBDA e : e.depth = 1 /\ e.kind = "reply_fetch")
ReplyFetchFailed(p) ==
    \E i \in DOMAIN log[p] :
        log[p][i].kind = "reply_fetch_answer" /\ log[p][i].answer.kind \in NotFoundOrInaccessible

\* C21: a returned call that resolves its reply target through the cache looked
\* under (peer id of the header, reply_to_msg_id) when the header names an
\* origin peer and under (chat id, reply_to_message_id) otherwise; on a hit the
\* cached message is attached and no fetch was issued; on a miss one fetch was
\* issued, with replies - 1, and when it failed as not found or channel
\* private reply_to_message is null.  No call issues more than one fetch.
C21_ReplyThroughCache ==
    \A p \in Callers : Called(p) /\ ResolvesThroughCache(ArgsOf(p)) =>
        /\ Len(ReplyFetches(p)) <= 1
        /\ \A i \in DOMAIN ReplyFetches(p) : ReplyFetches(p)[i].arg = ArgsOf(p).replies - 1
        /\ Returned(p) =>
            LET reply_to == ArgsOf(p).message.reply_to[1]
                cached == IF reply_to.reply_to_peer_id # NULL
                          THEN CachedBefore(p, get_peer_id(reply_to.reply_to_peer_id),
                                            reply_to.reply_to_msg_id)
                          ELSE CachedBefore(p, Result(p).chat[1].id, Result(p).reply_to_message_id)
            IN  IF cached # NULL
                THEN ReplyFetches(p) = <<>> /\ Result(p).reply_to_message = cached
                ELSE /\ Len(ReplyFetches(p)) = 1
                     /\ ReplyFetchFailed(p) => Result(p).reply_to_message = NULL

\* A reply whose target the cache held came back with the cached message and
\* without a fetch.
C21_Witness ==
    \E p \in Callers :
        /\ Returned(p) /\ ResolvesThroughCache(ArgsOf(p))
        /\ ReplyFetches(p) = <<>>
        /\ Result(p).reply_to_message = Some(1)

----------------------------------------------------------------------------
(* C22: the topic-edit action *)

TopicPayloadFields ==
    { "forum_topic_edited", "general_topic_hidden", "forum_topic_closed",
      "general_topic_unhidden", "forum_topic_reopened" }

\* C22: a returned topic-edit message is FORUM_TOPIC_EDITED when the action
\* has a title, else GENERAL_TOPIC_HIDDEN when hidden is set, else
\* FORUM_TOPIC_CLOSED when closed is set, else FORUM_TOPIC_REOPENED, with the
\* payload of that type and no other; none is GENERAL_TOPIC_UNHIDDEN.
C22_TopicEdit ==
    \A p \in Callers : Returned(p) /\ ActionTag(ArgsOf(p).message) = "MessageActionTopicEdit" =>
        LET action == ArgsOf(p).message.action[1]
            m == Result(p)
            is(type, payload) ==
                m.service = Some(type) /\ NonNull(m, TopicPayloadFields) = {payload}
        IN  /\ IF action.title # NULL /\ action.title[1] # ""
                   THEN is("FORUM_TOPIC_EDITED", "forum_topic_edited")
               ELSE IF action.hidden # NULL /\ action.hidden[1]
                   THEN is("GENERAL_TOPIC_HIDDEN", "general_topic_hidden")
               ELSE IF action.closed # NULL /\ action.closed[1]
                   THEN is("FORUM_TOPIC_CLOSED", "forum_topic_closed")
               ELSE is("FORUM_TOPIC_REOPENED", "forum_topic_reopened")
            /\ m.service # Some("GENERAL_TOPIC_UNHIDDEN")
            /\ m.general_topic_unhidden = NULL

\* An action with hidden and closed both set came back as GENERAL_TOPIC_HIDDEN.
C22_Witness ==
    \E p \in Callers :
        /\ Returned(p) /\ ActionTag(ArgsOf(p).message) = "MessageActionTopicEdit"
        /\ ArgsOf(p).message.action[1].hidden = Some(TRUE)
        /\ ArgsOf(p).message.action[1].closed = Some(TRUE)
        /\ ArgsOf(p).message.action[1].title = Some("")
        /\ Result(p).service = Some("GENERAL_TOPIC_HIDDEN")

----------------------------------------------------------------------------
(* C23: the media of a document *)

DocumentPayloadFields ==
    {"animation", "sticker", "video_note", "video", "voice", "audio", "document"}

GenuineDocument(message) ==
    MediaType(message) = "MessageMediaDocument" /\ message.media[1].document = "Document"

\* C23: a returned message whose media is a genuine document is ANIMATION
\* when the document has the Animated attribute; else STICKER with Sticker;
\* else, with Video, VIDEO_NOTE when round and VIDEO otherwise; else, with
\* Audio, VOICE when voice and AUDIO otherwise; else DOCUMENT; and of the seven
\* payloads it has the one of that type and no other.
C23_DocumentDispatch ==
    \A p \in Callers : Returned(p) /\ GenuineDocument(ArgsOf(p).message) =>
        LET media == ArgsOf(p).message.media[1]
            has(attribute) == ("DocumentAttribute" \o attribute) \in media.attributes
            m == Result(p)
            is(type, payload) ==
                m.media = Some(type) /\ NonNull(m, DocumentPayloadFields) = {payload}
        IN  IF has("Animated") THEN is("ANIMATION", "animation")
            ELSE IF has("Sticker") THEN is("STICKER", "sticker")
            ELSE IF has("Video") /\ media.round_message THEN is("VIDEO_NOTE", "video_note")
            ELSE IF has("Video") THEN is("VIDEO", "video")
            ELSE IF has("Audio") /\ media.voice THEN is("VOICE", "voice")
            ELSE IF has("Audio") THEN is("AUDIO", "audio")
            ELSE is("DOCUMENT", "document")

\* A document with an Audio attribute with voice set came back as VOICE.
C23_Witness ==
    \E p \in Callers :
        /\ Returned(p) /\ GenuineDocument(ArgsOf(p).message)
        /\ ArgsOf(p).message.media[1].attributes = {"DocumentAttributeAudio"}
        /\ ArgsOf(p).message.media[1].voice
        /\ Result(p).media = Some("VOICE") /\ Result(p).voice # NULL /\ Result(p).audio = NULL

----------------------------------------------------------------------------
(* C24: the sender *)

\* C24: a returned service or content message never has both from_user and
\* sender_chat; it has a sender_chat only when the users table, as it is after
\* the peer lookup, has no record under the sender peer id (from_id, else
\* peer_id), and a from_user only when it has one.
C24_Sender ==
    \A p \in Callers : Returned(p) /\ ArgsOf(p).message.type # "MessageEmpty" =>
        LET m == Result(p)
            sender == SenderId(ArgsOf(p).message)
            found == sender # NULL /\ sender[1] \in users[p]
        IN  /\ ~(m.from_user # NULL /\ m.sender_chat # NULL)
            /\ m.sender_chat # NULL => ~found
            /\ m.from_user # NULL => found /\ m.from_user = Some([user_id |-> sender[1]])

\* A message came back with a sender_chat and no from_user: the sender of the
\* record is not in the users table.
C24_Witness ==
    \E p \in Callers :
        /\ Returned(p) /\ IsContent(ArgsOf(p).message)
        /\ Result(p).sender_chat # NULL /\ Result(p).from_user = NULL
        /\ SenderId(ArgsOf(p).message) # NULL
        /\ SenderId(ArgsOf(p).message)[1] \notin users[p]

----------------------------------------------------------------------------
(* C25: the topic lookup *)

TopicLookups(p) == SelectSeq(log[p], LAMBDA e : e.depth = 1 /\ e.kind = "topic")

TopicReplies(p) == SelectSeq(log[p], LAMBDA e : e.depth = 1 /\ e.kind = "topic_answer")

\* The topics table holds the thread of the record
TopicAttached(a) ==
    /\ InForumTopic(a.message)
    /\ a.topics # NULL
    /\ ExpectedThread(a.message.reply_to[1]) \in a.topics[1]

ForumChat(a) == a.forum /\ a.message.peer_id[1].type = "PeerChannel"

\* C25: the topic lookup is issued at most once, only for a content record
\* with no topic attached from the topics table, in a forum chat, by a client
\* that is a regular user; it asks for the thread id of the record, or 1 when
\* the record has none; and a call whose lookup failed with channel-private or
\* forum-missing returns its message with topic null.
C25_TopicLookup ==
    \A p \in Callers : Called(p) =>
        LET a == ArgsOf(p)
            asked == TopicLookups(p)
            answers == TopicReplies(p)
        IN  /\ Len(asked) <= 1
            /\ asked # <<>> =>
                /\ IsContent(a.message)
                /\ ~TopicAttached(a)
                /\ ForumChat(a)
                /\ a.me = "user"
                /\ asked[1].arg = IF InForumTopic(a.message)
                                  THEN ExpectedThread(a.message.reply_to[1]) ELSE 1
            /\ Returned(p) /\ asked # <<>> =>
                asked[1].arg = OrInt(Result(p).message_thread_id, Some(1))[1]
            /\ Ended(p) /\ answers # <<>> /\ answers[1].answer.kind \in {"ChannelPrivate", "ChannelForumMissing"} =>
                Returned(p) /\ Result(p).topic = NULL

\* A record outside any thread, in a forum, decoded for a user: topic 1 was
\* asked for, the forum was missing, and the message came back without topic.
C25_Witness ==
    \E p \in Callers :
        /\ Returned(p)
        /\ Result(p).message_thread_id = NULL
        /\ Len(TopicLookups(p)) = 1 /\ TopicLookups(p)[1].arg = 1
        /\ TopicReplies(p)[1].answer.kind = "ChannelForumMissing"
        /\ Result(p).topic = NULL

----------------------------------------------------------------------------
(* Two Message._parse calls at once, for records cached under one key *)

\* Records with id 2 of the channel, one for every path through Message._parse.
SharedGroupCalls ==
    { Args(ServiceRaw(2, GroupPeers, Action("MessageActionChatCreate"), NULL), UserIds),
      Args(ServiceRaw(2, GroupPeers, Action("MessageActionPinMessage"), NULL), UserIds),
      Args(ServiceRaw(2, GroupPeers, Action("MessageActionGameScore"),
                      Some(Header(FALSE, NULL, Some(1)))), UserIds),
      Args(ContentRaw(2, GroupPeers, NULL, PlainBody, NULL), UserIds),
      Args(ContentRaw(2, GroupPeers, Some(Media("MessageMediaPoll")), PlainBody, NULL), UserIds),
      Args(ContentRaw(2, GroupPeers, Some(Media("MessageMediaStory")), PlainBody, NULL), UserIds),
      Args(ContentRaw(2, GroupPeers, NULL, PlainBody, Some(Header(FALSE, NULL, Some(1)))), UserIds),
      Args(ContentRaw(2, GroupPeers, NULL, PlainBody, Some(StoryHeader)), UserIds),
      [Args(ContentRaw(2, GroupPeers, NULL, PlainBody, NULL), UserIds) EXCEPT !.forum = TRUE],
      [Args(ContentRaw(2, GroupPeers, NULL, PlainBody, Some(Header(FALSE, NULL, Some(1)))), UserIds)
          EXCEPT !.raw_reply_to_message = Some(ContentRaw(1, GroupPeers, NULL, PlainBody, NULL))] }

\* Records with id 2 of a private exchange, the users unknown.
SharedPrivateCalls ==
    { Args(ContentRaw(2, PrivatePeers, NULL, PlainBody, NULL), {}),
      Args(ServiceRaw(2, PrivatePeers, Action("MessageActionChatCreate"), NULL), {}) }

\* Each caller makes one call, the second while the first is suspended in an
\* await or after it has ended, for a record with the same chat and id.
CallShared(p) ==
    /\ CanCall(p)
    /\ ~Called(p)
    /\ \E a \in SharedGroupCalls \cup SharedPrivateCalls :
        /\ \A q \in Callers \ {p} : Called(q) => OwnKey(ArgsOf(q)) = OwnKey(a)
        /\ Call(p, a)

InitPair ==
    /\ InitCommon
    /\ budget = 2
    /\ \/ heap = <<>> /\ message_cache = EmptyCache
       \/ heap = <<ContentMessage(SeedArgs, UserIds)>> /\ message_cache = SeedCache

NextPair == \E p \in Callers : CallShared(p) \/ Step(p)

SpecPair == InitPair /\ [][NextPair]_vars

----------------------------------------------------------------------------
(* C26: two calls, one cache key *)

\* What the lookups of a call assign after the message is built
LookupFields ==
    { "pinned_message", "service", "game_high_score", "reply_to_message", "reply_to_story",
      "topic", "topic_message", "message_thread_id" }

\* The message a call builds from its own arguments
BuiltAlone(p) ==
    IF IsService(ArgsOf(p).message)
    THEN ServiceMessage(ArgsOf(p), users[p]) ELSE ContentMessage(ArgsOf(p), users[p])

\* A call that returned and stored its message: every one but a poll
Wrote(p) == Returned(p) /\ (IsService(ArgsOf(p).message) \/ Result(p).poll = NULL)

\* C26: of two calls for records with the same chat and message id that
\* interleave at their awaits, each returns a message of its own, built from
\* its own record; once both have ended the cache holds under that key the
\* message of the call that stored last (what it held before, when neither
\* stored); and at no time does it hold anything but what it held when a call
\* was made or a message a call returned.
C26_LastWriterWins ==
    \A p, q \in Callers : p # q /\ Called(p) /\ Called(q) =>
        LET key == OwnKey(ArgsOf(p))
        IN  /\ OwnKey(ArgsOf(q)) = key
            /\ Returned(p) =>
                /\ \A f \in MessageFields \ LookupFields : Result(p)[f] = BuiltAlone(p)[f]
                /\ Returned(q) => outcome[p].ref # outcome[q].ref
            /\ message_cache[key] \in
                  { outcome[r].before : r \in {p, q} }
                  \cup { Some(outcome[r].ref) : r \in { r \in {p, q} : Returned(r) } }
            /\ Ended(p) /\ Ended(q) =>
                IF Wrote(p) /\ (Wrote(q) => outcome[p].order > outcome[q].order)
                THEN message_cache[key] = Some(outcome[p].ref)
                ELSE ~Wrote(p) /\ ~Wrote(q) => message_cache[key] = outcome[p].before

\* Both calls started on an empty entry, so they overlapped; the second ended
\* first and stored its message, the first ended last and the cache holds its.
C26_Witness ==
    /\ Wrote(1) /\ Wrote(2)
    /\ outcome[1].before = NULL /\ outcome[2].before = NULL
    /\ outcome[2].order = 1 /\ outcome[1].order = 2
    /\ message_cache[OwnKey(ArgsOf(1))] = Some(outcome[1].ref)
    /\ Result(1) # Result(2)

----------------------------------------------------------------------------
(* C27: the forward header *)

ForwardOrigins == {"forward_from", "forward_from_chat", "forward_sender_name"}

\* C27: a returned content message has a forward_date exactly when its record
\* has a forward header; at most one of forward_from, forward_from_chat and
\* forward_sender_name: a user only for a sender with a positive peer id, a
\* chat only for one with a negative peer id, a name only for a header without
\* sender; and forward_from_message_id or forward_signature only together with
\* forward_from_chat.
C27_ForwardLinkage ==
    \A p \in Callers : Returned(p) /\ IsContent(ArgsOf(p).message) =>
        LET fwd == ArgsOf(p).message.fwd_from
            m == Result(p)
            sender == IF fwd = NULL THEN NULL ELSE fwd[1].from_id
        IN  /\ (m.forward_date # NULL) <=> (fwd # NULL)
            /\ Cardinality(NonNull(m, ForwardOrigins)) <= 1
            /\ m.forward_from # NULL => sender # NULL /\ get_peer_id(sender) > 0
            /\ m.forward_from_chat # NULL => sender # NULL /\ get_peer_id(sender) < 0
            /\ m.forward_sender_name # NULL => fwd # NULL /\ sender = NULL
            /\ NonNull(m, {"forward_from_message_id", "forward_signature"}) # {} =>
                   m.forward_from_chat # NULL

\* A message forwarded from a channel, its header naming the sender too: the
\* chat, the post id and the signature came back, the name did not.
C27_Witness ==
    \E p \in Callers :
        /\ Returned(p) /\ IsContent(ArgsOf(p).message)
        /\ ArgsOf(p).message.fwd_from # NULL
        /\ ArgsOf(p).message.fwd_from[1].from_name = Some("name")
        /\ Result(p).forward_date # NULL
        /\ Result(p).forward_from_chat # NULL
        /\ Result(p).forward_from_message_id = Some(9)
        /\ Result(p).forward_signature # NULL
        /\ Result(p).forward_sender_name = NULL

----------------------------------------------------------------------------
(* C28: the users table *)

\* The users the peer lookups of a call answered with
Merged(p) ==
    UNION { log[p][i].answer.found :
              i \in { i \in DOMAIN log[p] : log[p][i].kind = "get_users_answer"
                                            /\ log[p][i].answer.kind = "found" } }

LookupFailed(p) ==
    \E i \in DOMAIN log[p] :
        \/ log[p][i].kind = "get_users_answer" /\ log[p][i].answer.kind # "found"
        \/ log[p][i].kind = "resolve_peer_answer" /\ log[p][i].answer.kind # "resolved"

\* C28: at every point of a call the users table holds what the caller passed
\* in and the users a successful peer lookup answered with, nothing less and
\* nothing more; it is the table passed in when the record is not an exchange
\* between two users, when both of them were in the table, and when the
\* lookup failed; the chats and the topics tables are what the caller passed in.
C28_UsersFrame ==
    \A p \in Callers : Called(p) =>
        LET a == ArgsOf(p)
        IN  /\ a.users \subseteq users[p]
            /\ users[p] = a.users \cup Merged(p)
            /\ \/ a.message.type = "MessageEmpty"
               \/ ~IsPrivate(a.message)
               \/ ~PeersMissing(a.message, a.users)
               \/ LookupFailed(p)
               => users[p] = a.users
            /\ chats[p] = a.chats
            /\ topics[p] = a.topics

\* The table held one of the two users, the lookup answered with the other,
\* and the call returned with both in the table.
C28_Witness ==
    \E p \in Callers :
        /\ Returned(p)
        /\ ArgsOf(p).users = {1}
        /\ Merged(p) = {2}
        /\ users[p] = {1, 2}
        /\ chats[p] = ArgsOf(p).chats /\ chats[p] # {}

----------------------------------------------------------------------------
(* C29: the pages of search_posts *)

\* |limit|, or 2^31 when limit is 0, as limbs
WantedTotal(limit_arg) == IF limit_arg = 0 THEN NoLimit ELSE Wide(Abs(limit_arg))

\* min(100, total)
WantedPage(limit_arg) ==
    IF limit_arg = 0 \/ Abs(limit_arg) >= PageSize THEN PageSize ELSE Abs(limit_arg)

\* The messages received so far: those yielded and the rest of the page
Received == posts.yielded \o SubSeq(posts.messages, posts.at + 1, Len(posts.messages))

\* The generator is suspended in an await or at its yield
Suspended == posts.pc \in {"invoke", "parse_messages", "resolve_peer", "yield"}

SearchPaging ==
    posts.pc # "none" =>
        /\ posts.request.limit = WantedPage(posts.limit_arg)
        /\ posts.pc \in {"invoke", "parse_messages"} =>
              posts.request.offset =
                  IF Received = <<>> THEN ZeroOffset
                  ELSE LET last == Received[Len(Received)]
                       IN  [offset_rate |-> last.date, offset_peer |-> last.chat.id,
                            offset_id |-> last.id]
        /\ posts.pc = "done" =>
              \/ Wide(Len(posts.yielded)) = WantedTotal(posts.limit_arg)
              \/ posts.messages = <<>>
        /\ posts.pc \in {"resolve_peer", "yield"} => posts.messages # <<>>
        /\ Suspended =>
              /\ WideLess(Wide(posts.current), WantedTotal(posts.limit_arg))
              /\ ~WideLess(WantedTotal(posts.limit_arg), Wide(Len(posts.yielded)))

\* C29: every request asks for min(100, total) messages, total being |limit|
\* or 2^31 for limit 0; the first has the zero offset and every later one the
\* date, peer and id of the last message received; the generator returns only
\* after an empty page or with total messages yielded, goes on after no empty
\* page and hands over no message beyond the total; and, the client answering
\* and the consumer iterating, it ends, by returning or with the error of an
\* awaited call.
C29_SearchTerminates == []SearchPaging /\ <>(posts.pc \in {"done", "raised"})

\* A search without limit returned on the empty third page, having asked for
\* the posts after the second and after the third post.
C29_Witness ==
    /\ posts.pc = "done"
    /\ posts.limit_arg = 0 /\ posts.server = 3 /\ posts.cap = 2
    /\ Len(posts.yielded) = 3
    /\ posts.request.offset.offset_id = 3
    /\ posts.messages = <<>>

----------------------------------------------------------------------------
(* C30: the cache of a call that failed *)

\* C30: when a call has ended with an error, whichever lookup or sub-decoder
\* it came from, the cache holds under the key of the call's own record what
\* it held when the call was made.
C30_NoWriteOnFailure ==
    \A p \in Callers : Raised(p) =>
        message_cache[OwnKey(ArgsOf(p))] = outcome[p].before

\* The recursive decode of the record handed over stored its message, then
\* the topic lookup failed: the entry of the call's own record is as it was,
\* empty, while the cache as a whole is not.
C30_Witness ==
    \E p \in Callers :
        /\ Raised(p)
        /\ \E i \in DOMAIN log[p] : log[p][i].depth = 1 /\ log[p][i].kind = "topic_answer"
        /\ \E i \in DOMAIN log[p] : log[p][i].kind = "decode"
        /\ message_cache[OwnKey(ArgsOf(p))] = outcome[p].before
        /\ outcome[p].before = NULL
        /\ \E k \in DOMAIN message_cache : k # OwnKey(ArgsOf(p)) /\ message_cache[k] \notin {NULL, Some(1)}

====
